---- MODULE Spec2Model ----
(***************************************************************************)
(* Registry build of the Mera platform (dev/py/registry_builder.py).       *)
(*                                                                         *)
(* main() discovers the component types, then parse_all_entities() reads   *)
(* every lesson file and then every menu file and builds the entity list,  *)
(* the entity-id and component-id sets and the three indices               *)
(* (component -> type, component -> lesson, domain -> lessons).  One       *)
(* action models one iteration of a file loop, whole.                      *)
(*                                                                         *)
(* A value that may be absent (dict.get(...) returning None) is modelled   *)
(* as a set of at most one element: {} is None, {v} is the value v.        *)
(* A file that cannot be read or parsed makes parse_entity_yaml return     *)
(* None like a file without id, and is not drawn separately.               *)
(* The pass-through metadata path, difficulty, estimatedMinutes and        *)
(* required are copied verbatim by the code and are left out of the        *)
(* records.                                                                *)
(***************************************************************************)
EXTENDS Integers, Sequences, FiniteSets, TLC

(***************************************************************************)
(* Bounds and input sets.                                                  *)
(***************************************************************************)
\* number of *.yaml files the lessons directory can hold
MaxLessonFiles == 2
\* number of *.yaml files the menus directory can hold
MaxMenuFiles == 1

\* metadata.id of a file: absent, 0, or an entity id
EntityIdValues == {{}, {0}, {10}, {11}}
\* metadata.title: absent or a title
TitleValues == {{}, {"Intro"}}
\* metadata.domainId: absent, 0, or a domain id
DomainIdValues == {{}, {0}, {7}}
\* component ids and type tags occurring in the content
ComponentIdValues == {{0}, {501}}
ComponentTypeValues == {{"basic_task"}, {"essay"}}
\* type tags the component sources can declare
RegisteredTypeNames == {"basic_task"}

ComponentEntries == [id : ComponentIdValues, type : ComponentTypeValues]

\* page lists of a file: no page, one empty page, one page of one component
PageLists ==
    {<<>>, <<[components |-> <<>>]>>}
        \cup {<<[components |-> <<c>>]>> : c \in ComponentEntries}

\* the parsed content (yaml.safe_load) of a lesson or menu file
YamlFiles ==
    [metadata : [id : EntityIdValues, title : TitleValues,
                 domainId : DomainIdValues],
     pages : PageLists]

VARIABLES
    pc,                       \* position of main()
    components,               \* discover_components(): list of component infos
    all_entities,             \* list of entity_info records
    entity_ids,               \* set of entity ids
    component_ids,            \* set of component ids
    domain_lesson_map,        \* domain id -> list of lesson ids
    component_id_to_type,     \* component id -> type string
    component_to_lesson_map,  \* component id -> lesson id
    lessons_read,             \* lesson files the loop has consumed
    menus_read,               \* menu files the loop has consumed
    yaml_id,                  \* metadata.get("id") of the file last read
    outcome,                  \* branch the last loop iteration took
    duplicate_errors,         \* entity ids printed as "Duplicate entity ID"
    error,                    \* the ValueError raised, {} if none
    ingested,                 \* history: the files read that carry a usable id
                              \* not carried by an earlier one, in order
    success,                  \* return value of main(), {} before it returns
    registry                  \* content of the written mera-registry.ts, {} if
                              \* it was not written

buildVars == <<pc, components, all_entities, entity_ids, component_ids,
               domain_lesson_map, component_id_to_type,
               component_to_lesson_map, lessons_read, menus_read, yaml_id,
               outcome, duplicate_errors, error, ingested, success, registry>>

\* component discovery, file by file (discover_components)
VARIABLES
    scanned,                  \* stems of the *.ts files the loop has visited
    registered,               \* discovered_components
    skipped,                  \* stems reported as "Skipped"
    last_source               \* the file scanned last, {} if none

discoveryVars == <<scanned, registered, skipped, last_source>>

\* merging of progress snapshots of one component instance
VARIABLES
    snapshots,                \* the snapshots to reconcile
    acc,                      \* device -> its merged value, {} before a merge
    used                      \* device -> the snapshots merged into acc

mergeVars == <<snapshots, acc, used>>

\* one BasicTaskComponentProgress and the config it is used with
VARIABLES
    config_checkboxes,        \* len(config.checkboxes) of the live config
    checkbox_checked,         \* progress.checkbox_checked
    stored_checked,           \* checkbox_checked of the stored snapshot
    progress_error            \* the ValueError the last call raised, {} if none

progressVars ==
    <<config_checkboxes, checkbox_checked, stored_checked, progress_error>>

\* the parts a specification of one part leaves alone
DiscoveryIdle ==
    scanned = {} /\ registered = <<>> /\ skipped = {} /\ last_source = {}

MergeIdle == snapshots = <<>> /\ acc = <<>> /\ used = <<>>

ProgressIdle ==
    /\ config_checkboxes = 0
    /\ checkbox_checked = <<>>
    /\ stored_checked = <<>>
    /\ progress_error = {}

\* one run of handle_solid_connection on the /solid page
VARIABLES
    conn_pc,                  \* where the coroutine stands
    current_url,              \* window.location of the page
    session_info,             \* session.info as the handler read it last
    attempt,                  \* loop variable of the polling loop
    persistence_failures,
    webid,                    \* webid of the running attempt, {} if none
    ever_ready,               \* some attempt of the run saw isLoggedIn
    validation_passed,        \* outcome of the URL validation of webid,
                              \* {} while none was done in the attempt
    status,                   \* what the status area shows
    error_message,            \* message of the error section, {} if hidden
    login_issuer,             \* issuer solid_client.login was called with
    login_raised,             \* session.login raised inside the wrapper
    session_backup            \* localStorage item mera_solid_session_backup

connectionVars == <<conn_pc, current_url, session_info, attempt,
                    persistence_failures, webid, ever_ready,
                    validation_passed, status, error_message, login_issuer,
                    login_raised, session_backup>>

\* one run of check_authentication on the learn page
VARIABLES
    learn_pc,                 \* where the coroutine stands
    has_solid_library,        \* hasattr(window, 'solidClientAuthentication')
    stored_session,           \* localStorage item mera_solid_session_backup
    current_time,             \* js.Date.now() in milliseconds
    live_session,             \* session_info after the direct check, {} = None
    backup_accepted,          \* the backup replaced session_info
    content_revealed,         \* learning-content lost its hidden class
    redirected                \* window.location.href was set to HELLO_URL

learnVars == <<learn_pc, has_solid_library, stored_session, current_time,
               live_session, backup_accepted, content_revealed, redirected>>

\* Page bootstrap (src/static/py/initialization/bootstrap.py).
VARIABLES
    boot_pc,                  \* position of start_bootstrap
    boot_attempt,             \* polls of the bridge made by the current run
    solid_session_ready,      \* local flag of start_bootstrap
    last_poll,                \* what the bridge answered to the last poll
    initialize_calls,         \* initialize_state_solid calls of the current run
    no_solid_calls,           \* no_solid_connection calls of the current run
    ui_error_display,         \* module global error_display is an object
    instance_error_display,   \* bootstrap_instance.error_display is an object
    auth_status_hidden,       \* 'auth-status' carries the class hidden
    lesson_container_shown    \* 'lesson-container' lost the class hidden

bootstrapVars == <<boot_pc, boot_attempt, solid_session_ready, last_poll,
                   initialize_calls, no_solid_calls, ui_error_display,
                   instance_error_display, auth_status_hidden,
                   lesson_container_shown>>

\* ErrorDisplay and the error slot of the timeline
\* (src/static/py/ui/error_display.py, src/static/py/ui/timeline_container.py).
VARIABLES
    active_errors,            \* ErrorDisplay.active_errors: error id -> type
    has_error_slot,           \* the document holds the timeline's error slot
    error_slot_class,         \* class tokens of the error slot
    slot_elements,            \* error ids of the slot's children, in order
    floating_elements         \* error ids of the floating container's children

errorVars == <<active_errors, has_error_slot, error_slot_class,
               slot_elements, floating_elements>>

\* SolidAuth progress storage (src/static/py/solid_auth.py).
VARIABLES
    pod_url,                  \* SolidAuth.pod_url, {} for None
    auth_session,             \* session.info of the default session
    session_gate,             \* check_session returned True and no logout since
    last_op,                  \* the SolidAuth method that ran last
    last_lesson,              \* the lesson id it was given, {} for none
    last_return,              \* what it returned
    last_storage_calls,       \* solidClient calls it issued, in order
    ensured,                  \* what its ensure_directory_exists returned
    pod_files                 \* files written to the pods

storageVars == <<pod_url, auth_session, session_gate, last_op, last_lesson,
                 last_return, last_storage_calls, ensured, pod_files>>

NoSession == [isLoggedIn |-> FALSE, webId |-> {}]

ConnectionIdle ==
    /\ conn_pc = "idle"
    /\ current_url = {}
    /\ session_info = NoSession
    /\ attempt = 0
    /\ persistence_failures = 0
    /\ webid = {}
    /\ ever_ready = FALSE
    /\ validation_passed = {}
    /\ status = "none"
    /\ error_message = {}
    /\ login_issuer = {}
    /\ login_raised = FALSE
    /\ session_backup = {}

LearnIdle ==
    /\ learn_pc = "idle"
    /\ has_solid_library = FALSE
    /\ stored_session = {}
    /\ current_time = 0
    /\ live_session = {}
    /\ backup_accepted = FALSE
    /\ content_revealed = FALSE
    /\ redirected = FALSE

BootstrapIdle ==
    /\ boot_pc = "idle"
    /\ boot_attempt = 0
    /\ solid_session_ready = FALSE
    /\ last_poll = [present |-> FALSE, check |-> "none"]
    /\ initialize_calls = 0
    /\ no_solid_calls = 0
    /\ ui_error_display = FALSE
    /\ instance_error_display = FALSE
    /\ auth_status_hidden = FALSE
    /\ lesson_container_shown = FALSE

ErrorIdle ==
    /\ active_errors = <<>>
    /\ has_error_slot = FALSE
    /\ error_slot_class = {}
    /\ slot_elements = <<>>
    /\ floating_elements = <<>>

StorageIdle ==
    /\ pod_url = {}
    /\ auth_session = NoSession
    /\ session_gate = FALSE
    /\ last_op = "none"
    /\ last_lesson = {}
    /\ last_return = "none"
    /\ last_storage_calls = <<>>
    /\ ensured = {}
    /\ pod_files = {}

browserVars ==
    <<connectionVars, learnVars, bootstrapVars, errorVars, storageVars>>

BrowserIdle ==
    ConnectionIdle /\ LearnIdle /\ BootstrapIdle /\ ErrorIdle /\ StorageIdle

outsideBuild == <<discoveryVars, mergeVars, progressVars, browserVars>>

outsideDiscovery == <<buildVars, mergeVars, progressVars, browserVars>>

outsideMerge == <<buildVars, discoveryVars, progressVars, browserVars>>

outsideProgress == <<buildVars, discoveryVars, mergeVars, browserVars>>

outsideConnection ==
    <<buildVars, discoveryVars, mergeVars, progressVars, learnVars,
      bootstrapVars, errorVars, storageVars>>

outsideLearn ==
    <<buildVars, discoveryVars, mergeVars, progressVars, connectionVars,
      bootstrapVars, errorVars, storageVars>>

outsideErrorDisplay ==
    <<buildVars, discoveryVars, mergeVars, progressVars, connectionVars,
      learnVars, bootstrapVars, storageVars>>

outsideBootstrap ==
    <<buildVars, discoveryVars, mergeVars, progressVars, connectionVars,
      learnVars, storageVars>>

outsideStorage ==
    <<buildVars, discoveryVars, mergeVars, progressVars, connectionVars,
      learnVars, bootstrapVars, errorVars>>

vars == <<buildVars, discoveryVars, mergeVars, progressVars, browserVars>>

(***************************************************************************)
(* Python helpers.                                                         *)
(***************************************************************************)
\* bool(x) of an optional number: None and 0 are false
Truthy(opt) == opt # {} /\ opt # {0}

\* bool(x) of an optional string: None and "" are false
TruthyStr(opt) == opt # {} /\ opt # {""}

\* the value of a present optional
Val(opt) == CHOOSE v \in opt : TRUE

\* dict.get(key, default) on an optional
GetOr(opt, default) == IF opt = {} THEN default ELSE Val(opt)

EmptyMap == [k \in {} |-> k]

\* m[k] = v on a dict
Put(m, k, v) == [x \in DOMAIN m \cup {k} |-> IF x = k THEN v ELSE m[x]]

RECURSIVE TotalComponents(_)
\* sum(len(page.get("components", [])) for page in pages)
TotalComponents(pages) ==
    IF pages = <<>> THEN 0
    ELSE Len(Head(pages).components) + TotalComponents(Tail(pages))

RECURSIVE FlattenPages(_)
\* the components in the order the nested page/component loops visit them
FlattenPages(pages) ==
    IF pages = <<>> THEN <<>>
    ELSE Head(pages).components \o FlattenPages(Tail(pages))

(***************************************************************************)
(* parse_entity_yaml: None ({}) when the id is missing or falsy.           *)
(***************************************************************************)
EntityInfo(yaml_file, entity_type) ==
    LET metadata == yaml_file.metadata
        base == [id |-> Val(metadata.id),
                 title |-> GetOr(metadata.title, ""),
                 entityType |-> entity_type,
                 pageCount |-> Len(yaml_file.pages),
                 componentCount |-> TotalComponents(yaml_file.pages)]
    IN  IF entity_type = "lesson"
        THEN [id |-> base.id, title |-> base.title,
              entityType |-> base.entityType, pageCount |-> base.pageCount,
              componentCount |-> base.componentCount,
              domainId |-> metadata.domainId]
        ELSE base

\* variant: the id check is missing and an absent id is read as 0
parse_entity_yaml_DefaultsId(yaml_file, entity_type) ==
    {EntityInfo([yaml_file EXCEPT !.metadata.id = {GetOr(@, 0)}],
                entity_type)}

parse_entity_yaml(yaml_file, entity_type) ==
    IF ~Truthy(yaml_file.metadata.id) THEN {}
    ELSE {EntityInfo(yaml_file, entity_type)}

\* entity_info.get("domainId")
EntityDomainId(entity_info) ==
    IF "domainId" \in DOMAIN entity_info THEN entity_info.domainId ELSE {}

(***************************************************************************)
(* Component discovery (phase 1 of main).                                  *)
(***************************************************************************)
\* what the six COMPONENT_PATTERNS match in a component source file
ComponentSources ==
    [stem : {"basicTask"},
     componentClass : {{"BasicTaskCore"}},
     configSchema : {{"BasicTaskConfigSchema"}},
     progressSchema : {{"BasicTaskProgressSchema"}},
     typeName : {{t} : t \in RegisteredTypeNames},
     validatorFunction : {{"validateBasicTaskStructure"}},
     initializerFunction : {{}, {"createInitialProgress"}}]

\* number of *.ts files the components directory can hold
MaxComponentFiles == 1

\* variant: the validator function is one more required export
scan_component_file_RequiresValidator(src) ==
    IF src.componentClass # {} /\ src.configSchema # {}
       /\ src.progressSchema # {} /\ src.typeName # {}
       /\ src.initializerFunction # {} /\ src.validatorFunction # {}
    THEN {[componentClass |-> Val(src.componentClass),
           configSchema |-> Val(src.configSchema),
           progressSchema |-> Val(src.progressSchema),
           typeName |-> Val(src.typeName),
           validatorFunction |-> src.validatorFunction,
           initializerFunction |-> Val(src.initializerFunction),
           file |-> src.stem]}
    ELSE {}

\* scan_component_file: the component info, or {} (None) when a required
\* export is missing
scan_component_file(src) ==
    IF src.componentClass # {} /\ src.configSchema # {}
       /\ src.progressSchema # {} /\ src.typeName # {}
       /\ src.initializerFunction # {}
    THEN {[componentClass |-> Val(src.componentClass),
           configSchema |-> Val(src.configSchema),
           progressSchema |-> Val(src.progressSchema),
           typeName |-> Val(src.typeName),
           validatorFunction |-> src.validatorFunction,
           initializerFunction |-> Val(src.initializerFunction),
           file |-> src.stem]}
    ELSE {}

RECURSIVE discover_components(_)
\* the infos of the scanned files that are not None, in directory order
discover_components(ts_files) ==
    IF ts_files = <<>> THEN <<>>
    ELSE LET component_info == scan_component_file(Head(ts_files))
         IN  (IF component_info # {} THEN <<Val(component_info)>> ELSE <<>>)
                 \o discover_components(Tail(ts_files))

(***************************************************************************)
(* parse_all_entities.  b is the record of the collections the function    *)
(* builds; every operator returns the record after its piece of code ran.  *)
(***************************************************************************)
Build ==
    [all_entities |-> all_entities,
     entity_ids |-> entity_ids,
     component_ids |-> component_ids,
     domain_lesson_map |-> domain_lesson_map,
     component_id_to_type |-> component_id_to_type,
     component_to_lesson_map |-> component_to_lesson_map,
     duplicate_errors |-> duplicate_errors,
     error |-> error,
     outcome |-> outcome]

\* the ValueError of lines 228-234
ConflictError(b, comp_id, comp_type, entity_id) ==
    [comp_id |-> comp_id, previous |-> b.component_id_to_type[comp_id],
     found |-> comp_type, entity |-> entity_id]

\* variant: the reverse index keeps the first owner of a component id
LessonComponentStep_KeepsFirstOwner(b, component, entity_id) ==
    LET comp_id == component.id
        comp_type == component.type
    IN  IF Truthy(comp_id) /\ TruthyStr(comp_type)
        THEN LET added == [b EXCEPT !.component_ids = @ \cup {Val(comp_id)}]
             IN  IF Val(comp_id) \in DOMAIN b.component_id_to_type
                    /\ b.component_id_to_type[Val(comp_id)] # Val(comp_type)
                 THEN [added EXCEPT !.error =
                          {ConflictError(b, Val(comp_id), Val(comp_type),
                                         entity_id)}]
                 ELSE [added EXCEPT
                          !.component_id_to_type =
                              Put(@, Val(comp_id), Val(comp_type)),
                          !.component_to_lesson_map =
                              IF Val(comp_id) \in DOMAIN @ THEN @
                              ELSE Put(@, Val(comp_id), entity_id)]
        ELSE b

\* body of the lesson loop for one component (lines 222-237)
LessonComponentStep(b, component, entity_id) ==
    LET comp_id == component.id
        comp_type == component.type
    IN  IF Truthy(comp_id) /\ TruthyStr(comp_type)
        THEN LET added == [b EXCEPT !.component_ids = @ \cup {Val(comp_id)}]
             IN  IF Val(comp_id) \in DOMAIN b.component_id_to_type
                    /\ b.component_id_to_type[Val(comp_id)] # Val(comp_type)
                 THEN [added EXCEPT !.error =
                          {ConflictError(b, Val(comp_id), Val(comp_type),
                                         entity_id)}]
                 ELSE [added EXCEPT
                          !.component_id_to_type =
                              Put(@, Val(comp_id), Val(comp_type)),
                          !.component_to_lesson_map =
                              Put(@, Val(comp_id), entity_id)]
        ELSE b

\* variant: the menu loop writes the reverse index as the lesson loop does
MenuComponentStep_RecordsOwner(b, component, entity_id) ==
    LessonComponentStep(b, component, entity_id)

\* body of the menu loop for one component (lines 267-280)
MenuComponentStep(b, component, entity_id) ==
    LET comp_id == component.id
        comp_type == component.type
    IN  IF Truthy(comp_id) /\ TruthyStr(comp_type)
        THEN LET added == [b EXCEPT !.component_ids = @ \cup {Val(comp_id)}]
             IN  IF Val(comp_id) \in DOMAIN b.component_id_to_type
                    /\ b.component_id_to_type[Val(comp_id)] # Val(comp_type)
                 THEN [added EXCEPT !.error =
                          {ConflictError(b, Val(comp_id), Val(comp_type),
                                         entity_id)}]
                 ELSE [added EXCEPT
                          !.component_id_to_type =
                              Put(@, Val(comp_id), Val(comp_type))]
        ELSE b

RECURSIVE LessonComponentLoop(_, _, _)
\* the nested page/component loops over a lesson; a raise ends them
LessonComponentLoop(b, comps, entity_id) ==
    IF comps = <<>> \/ b.error # {} THEN b
    ELSE LessonComponentLoop(LessonComponentStep(b, Head(comps), entity_id),
                             Tail(comps), entity_id)

RECURSIVE MenuComponentLoop(_, _, _)
\* the nested page/component loops over a menu; a raise ends them
MenuComponentLoop(b, comps, entity_id) ==
    IF comps = <<>> \/ b.error # {} THEN b
    ELSE MenuComponentLoop(MenuComponentStep(b, Head(comps), entity_id),
                           Tail(comps), entity_id)

\* domain_lesson_map after the lesson entity_info was indexed (lines 240-244)
MapDomain(map, entity_info) ==
    LET domain_id == EntityDomainId(entity_info)
    IN  IF Truthy(domain_id)
        THEN Put(map, Val(domain_id),
                 (IF Val(domain_id) \in DOMAIN map
                  THEN map[Val(domain_id)] ELSE <<>>)
                     \o <<entity_info.id>>)
        ELSE map

\* "if not entity_info: continue" (lines 206-207, 251-252)
SkipDocument(b) == [b EXCEPT !.outcome = "skipped"]

\* variant: a duplicate entity id raises instead of being skipped
DuplicateEntity_Raises(b, entity_info) ==
    [b EXCEPT !.outcome = "duplicate",
              !.duplicate_errors = @ \cup {entity_info.id},
              !.error = {[entity |-> entity_info.id]}]

\* variant: a duplicate entity id replaces the entry recorded first
DuplicateEntity_Overwrites(b, entity_info) ==
    [b EXCEPT !.outcome = "duplicate",
              !.duplicate_errors = @ \cup {entity_info.id},
              !.all_entities =
                  [i \in DOMAIN @ |->
                      IF @[i].id = entity_info.id THEN entity_info
                      ELSE @[i]]]

\* the duplicate branch: print the error and continue (lines 210-212, 255-257)
DuplicateEntity(b, entity_info) ==
    [b EXCEPT !.outcome = "duplicate",
              !.duplicate_errors = @ \cup {entity_info.id}]

\* a lesson that passed the checks is recorded and indexed (lines 214-244);
\* the raise leaves the domain map as it was
IndexLesson(b, yaml_file, entity_info) ==
    LET recorded == [b EXCEPT !.entity_ids = @ \cup {entity_info.id},
                              !.all_entities = Append(@, entity_info)]
        looped == LessonComponentLoop(recorded, FlattenPages(yaml_file.pages),
                                      entity_info.id)
    IN  IF looped.error # {}
        THEN [looped EXCEPT !.outcome = "raised"]
        ELSE [looped EXCEPT !.outcome = "ingested",
                            !.domain_lesson_map = MapDomain(@, entity_info)]

\* a menu that passed the checks is recorded and indexed (lines 259-280)
IndexMenu(b, yaml_file, entity_info) ==
    LET recorded == [b EXCEPT !.entity_ids = @ \cup {entity_info.id},
                              !.all_entities = Append(@, entity_info)]
        looped == MenuComponentLoop(recorded, FlattenPages(yaml_file.pages),
                                    entity_info.id)
    IN  IF looped.error # {}
        THEN [looped EXCEPT !.outcome = "raised"]
        ELSE [looped EXCEPT !.outcome = "ingested"]

\* variant: the lesson loop does not test the id against entity_ids
LessonIteration_NoDuplicateCheck(b, yaml_file) ==
    LET entity_info == parse_entity_yaml(yaml_file, "lesson")
    IN  IF entity_info = {} THEN SkipDocument(b)
        ELSE IndexLesson(b, yaml_file, Val(entity_info))

\* one iteration of the lesson-file loop (lines 204-244)
LessonIteration(b, yaml_file) ==
    LET entity_info == parse_entity_yaml(yaml_file, "lesson")
    IN  IF entity_info = {} THEN SkipDocument(b)
        ELSE IF Val(entity_info).id \in b.entity_ids
        THEN DuplicateEntity(b, Val(entity_info))
        ELSE IndexLesson(b, yaml_file, Val(entity_info))

\* one iteration of the menu-file loop (lines 249-280)
MenuIteration(b, yaml_file) ==
    LET entity_info == parse_entity_yaml(yaml_file, "menu")
    IN  IF entity_info = {} THEN SkipDocument(b)
        ELSE IF Val(entity_info).id \in b.entity_ids
        THEN DuplicateEntity(b, Val(entity_info))
        ELSE IndexMenu(b, yaml_file, Val(entity_info))

\* variant: the error is recorded and the loop goes on
AfterIteration_Continues(b, position) == position

\* where main() stands after an iteration: an uncaught ValueError ends it
AfterIteration(b, position) ==
    IF b.error # {} THEN "raised" ELSE position

\* history of the input: the file is remembered when it carries a usable id
\* that no remembered file carries
Remember(history, kind, yaml_file) ==
    IF Truthy(yaml_file.metadata.id)
       /\ \A i \in DOMAIN history :
             history[i].file.metadata.id # yaml_file.metadata.id
    THEN Append(history, [kind |-> kind, file |-> yaml_file])
    ELSE history

(***************************************************************************)
(* Initial state and actions.                                              *)
(***************************************************************************)
BuildIdle ==
    /\ pc = "discover"
    /\ components = <<>>
    /\ all_entities = <<>>
    /\ entity_ids = {}
    /\ component_ids = {}
    /\ domain_lesson_map = EmptyMap
    /\ component_id_to_type = EmptyMap
    /\ component_to_lesson_map = EmptyMap
    /\ lessons_read = 0
    /\ menus_read = 0
    /\ yaml_id = {}
    /\ outcome = "none"
    /\ duplicate_errors = {}
    /\ error = {}
    /\ ingested = <<>>
    /\ success = {}
    /\ registry = {}

Init ==
    BuildIdle /\ DiscoveryIdle /\ MergeIdle /\ ProgressIdle /\ BrowserIdle

\* the collections of parse_all_entities take the values of the record b
Assign(b) ==
    /\ all_entities' = b.all_entities
    /\ entity_ids' = b.entity_ids
    /\ component_ids' = b.component_ids
    /\ domain_lesson_map' = b.domain_lesson_map
    /\ component_id_to_type' = b.component_id_to_type
    /\ component_to_lesson_map' = b.component_to_lesson_map
    /\ duplicate_errors' = b.duplicate_errors
    /\ error' = b.error
    /\ outcome' = b.outcome

\* phase 1 of main: discover_components over the components directory
DiscoverComponents ==
    /\ pc = "discover"
    /\ \E n \in 0..MaxComponentFiles :
         \E ts_files \in [1..n -> ComponentSources] :
            components' = discover_components(ts_files)
    /\ pc' = "lessons"
    /\ UNCHANGED <<all_entities, entity_ids, component_ids, domain_lesson_map,
                   component_id_to_type, component_to_lesson_map,
                   lessons_read, menus_read, yaml_id, outcome,
                   duplicate_errors, error, ingested, success, registry>>
    /\ UNCHANGED outsideBuild

\* the lesson loop reads the next file of the lessons directory
ParseLessonFile(yaml_file) ==
    /\ pc = "lessons"
    /\ lessons_read < MaxLessonFiles
    /\ lessons_read' = lessons_read + 1
    /\ yaml_id' = yaml_file.metadata.id
    /\ ingested' = Remember(ingested, "lesson", yaml_file)
    /\ LET b == LessonIteration(Build, yaml_file)
       IN  Assign(b) /\ pc' = AfterIteration(b, pc)
    /\ UNCHANGED <<components, menus_read, success, registry>>
    /\ UNCHANGED outsideBuild

\* the lesson loop ends: the directory listing is exhausted
FinishLessons ==
    /\ pc = "lessons"
    /\ pc' = "menus"
    /\ UNCHANGED <<components, all_entities, entity_ids, component_ids,
                   domain_lesson_map, component_id_to_type,
                   component_to_lesson_map, lessons_read, menus_read, yaml_id,
                   outcome, duplicate_errors, error, ingested, success,
                   registry>>
    /\ UNCHANGED outsideBuild

\* the menu loop reads the next file of the menus directory
ParseMenuFile(yaml_file) ==
    /\ pc = "menus"
    /\ menus_read < MaxMenuFiles
    /\ menus_read' = menus_read + 1
    /\ yaml_id' = yaml_file.metadata.id
    /\ ingested' = Remember(ingested, "menu", yaml_file)
    /\ LET b == MenuIteration(Build, yaml_file)
       IN  Assign(b) /\ pc' = AfterIteration(b, pc)
    /\ UNCHANGED <<components, lessons_read, success, registry>>
    /\ UNCHANGED outsideBuild

\* parse_all_entities returns its six collections to main
ReturnEntities ==
    /\ pc = "menus"
    /\ pc' = "generate"
    /\ UNCHANGED <<components, all_entities, entity_ids, component_ids,
                   domain_lesson_map, component_id_to_type,
                   component_to_lesson_map, lessons_read, menus_read, yaml_id,
                   outcome, duplicate_errors, error, ingested, success,
                   registry>>
    /\ UNCHANGED outsideBuild

(***************************************************************************)
(* generate_component_registry and the query class it emits.               *)
(***************************************************************************)
RECURSIVE MapFromEntries(_)
\* new Map([[key, value], ...]): a later entry replaces an earlier one
MapFromEntries(entries) ==
    IF entries = <<>> THEN EmptyMap
    ELSE LET last == entries[Len(entries)]
         IN  Put(MapFromEntries(SubSeq(entries, 1, Len(entries) - 1)),
                 last.key, last.value)

\* entity_metrics_entries (lines 444-448)
EntityMetricsEntries(entities) ==
    [i \in DOMAIN entities |->
        [key |-> entities[i].id,
         value |-> [pageCount |-> entities[i].pageCount,
                    componentCount |-> entities[i].componentCount,
                    title |-> entities[i].title]]]

\* the mappings of the generated registry the queries read
generate_component_registry ==
    [allLessonIds |-> entity_ids,
     allComponentIds |-> component_ids,
     lessonMetrics |-> MapFromEntries(EntityMetricsEntries(all_entities)),
     componentIdToTypeMap |-> component_id_to_type,
     componentToLessonMap |-> component_to_lesson_map,
     domainLessonMap |-> domain_lesson_map,
     lessonMetadata |-> all_entities]

\* CurriculumRegistry.hasEntity (lines 617-619)
hasEntity(reg, entityId) == entityId \in reg.allLessonIds

\* variant: an unknown id answers the sentinel 0 instead of throwing
getEntityPageCount_Sentinel(reg, entityId) ==
    IF entityId \notin DOMAIN reg.lessonMetrics
    THEN [thrown |-> {}, value |-> {0}]
    ELSE [thrown |-> {}, value |-> {reg.lessonMetrics[entityId].pageCount}]

\* CurriculumRegistry.getEntityPageCount (lines 635-643): the Error thrown
\* or the value returned
getEntityPageCount(reg, entityId) ==
    IF entityId \notin DOMAIN reg.lessonMetrics
    THEN [thrown |-> {"not found in registry"}, value |-> {}]
    ELSE [thrown |-> {}, value |-> {reg.lessonMetrics[entityId].pageCount}]

\* main generates and writes the registry files; written is whether the
\* two writes went through
WriteRegistry(written) ==
    /\ pc = "generate"
    /\ pc' = "done"
    /\ success' = {written}
    /\ registry' = IF written THEN {generate_component_registry} ELSE {}
    /\ UNCHANGED <<components, all_entities, entity_ids, component_ids,
                   domain_lesson_map, component_id_to_type,
                   component_to_lesson_map, lessons_read, menus_read, yaml_id,
                   outcome, duplicate_errors, error, ingested>>
    /\ UNCHANGED outsideBuild

Next ==
    \/ DiscoverComponents
    \/ \E yaml_file \in YamlFiles : ParseLessonFile(yaml_file)
    \/ FinishLessons
    \/ \E yaml_file \in YamlFiles : ParseMenuFile(yaml_file)
    \/ ReturnEntities
    \/ \E written \in BOOLEAN : WriteRegistry(written)

Spec == Init /\ [][Next]_vars

(***************************************************************************)
(* discover_components, one file of the components directory per step.     *)
(* File names of one directory are distinct, so a stem is scanned once.    *)
(* progressFields are the fields of the progress schema the file exports   *)
(* and reducerFields those for which it declares a merge reducer; neither  *)
(* is among the patterns the scan searches for.                            *)
(***************************************************************************)
TsFiles ==
    [stem : {"baseComponentCore", "basicTask", "basicTaskV2"},
     componentClass : {{}, {"BasicTaskCore"}},
     configSchema : {{}, {"BasicTaskConfigSchema"}},
     progressSchema : {{}, {"BasicTaskProgressSchema"}},
     typeName : {{}, {"basic_task"}, {"essay"}},
     validatorFunction : {{}, {"validateBasicTaskStructure"}},
     initializerFunction : {{}, {"createInitialProgress"}},
     progressFields : {{"complete", "checkbox_checked"}},
     reducerFields : {{"complete", "checkbox_checked"}, {"complete"}}]

InitDiscovery ==
    BuildIdle /\ DiscoveryIdle /\ MergeIdle /\ ProgressIdle /\ BrowserIdle

\* the glob yields baseComponentCore.ts: continue
SkipBaseComponentCore(ts_file) ==
    /\ ts_file.stem \notin scanned
    /\ ts_file.stem = "baseComponentCore"
    /\ scanned' = scanned \cup {ts_file.stem}
    /\ last_source' = {ts_file}
    /\ UNCHANGED <<registered, skipped>>
    /\ UNCHANGED outsideDiscovery

\* the glob yields another file: it is scanned and registered or skipped
ScanComponentFile(ts_file) ==
    /\ ts_file.stem \notin scanned
    /\ ts_file.stem # "baseComponentCore"
    /\ scanned' = scanned \cup {ts_file.stem}
    /\ last_source' = {ts_file}
    /\ LET component_info == scan_component_file(ts_file)
       IN  IF component_info # {}
           THEN /\ registered' = Append(registered, Val(component_info))
                /\ skipped' = skipped
           ELSE /\ skipped' = skipped \cup {ts_file.stem}
                /\ registered' = registered
    /\ UNCHANGED outsideDiscovery

NextDiscovery ==
    \/ \E ts_file \in TsFiles : SkipBaseComponentCore(ts_file)
    \/ \E ts_file \in TsFiles : ScanComponentFile(ts_file)

SpecDiscovery == InitDiscovery /\ [][NextDiscovery]_vars

(***************************************************************************)
(* Merging the progress of one basic_task component instance.  The field   *)
(* reducer of checkbox_checked is the lambda of get_all_trump_strategies;  *)
(* "true_wins" is only named by the declaration of complete, and the       *)
(* engine that applies one reducer per field is not part of the sources:   *)
(* both follow section 4.3 of the specification.                           *)
(***************************************************************************)
\* longest checkbox list of a snapshot
MaxCheckboxes == 2

\* number of different snapshots of the instance that exist
MaxSnapshots == 3

Devices == {"laptop", "phone"}

BoolLists == UNION {[1..n -> BOOLEAN] : n \in 0..MaxCheckboxes}

\* BasicTaskComponentProgress values
Snapshots == [complete : BOOLEAN, checkbox_checked : BoolLists]

RECURSIVE SnapshotSets(_)
\* the sets of at most n snapshots
SnapshotSets(n) ==
    IF n = 0 THEN {{}}
    ELSE LET smaller == SnapshotSets(n - 1)
         IN  smaller \cup {S \cup {x} : S \in smaller, x \in Snapshots}

\* zip_longest(a, b, fillvalue=False): the i-th element of list on its side
Filled(list, i) == IF i <= Len(list) THEN list[i] ELSE FALSE

LongestLen(a, b) == IF Len(a) >= Len(b) THEN Len(a) ELSE Len(b)

\* variant: zip, which stops at the shorter list
CheckboxTrump_Zip(a, b) ==
    [i \in DOMAIN a \cap DOMAIN b |-> a[i] \/ b[i]]

\* variant: the result keeps the length of the first list
CheckboxTrump_LeftLength(a, b) ==
    [i \in 1..Len(a) |-> a[i] \/ Filled(b, i)]

\* variant: x != y instead of x or y
CheckboxTrump_Xor(a, b) ==
    [i \in 1..LongestLen(a, b) |-> Filled(a, i) # Filled(b, i)]

\* variant: the second list overwrites the first where it has entries
CheckboxTrump_SecondWins(a, b) ==
    [i \in 1..LongestLen(a, b) |-> IF i <= Len(b) THEN b[i] ELSE a[i]]

\* the trump strategy of checkbox_checked:
\* [x or y for x, y in zip_longest(a, b, fillvalue=False)]
CheckboxTrump(a, b) ==
    [i \in 1..LongestLen(a, b) |-> Filled(a, i) \/ Filled(b, i)]

\* variant: the second value wins
TrueWins_SecondWins(a, b) == b

\* trump="true_wins" of complete
TrueWins(a, b) == a \/ b

\* merge("basic_task", local, remote): each field by its own reducer
Merge(local, remote) ==
    [complete |-> TrueWins(local.complete, remote.complete),
     checkbox_checked |-> CheckboxTrump(local.checkbox_checked,
                                        remote.checkbox_checked)]

InitMerge ==
    /\ snapshots \in SnapshotSets(MaxSnapshots) \ {{}}
    /\ acc = [d \in Devices |-> {}]
    /\ used = [d \in Devices |-> {}]
    /\ BuildIdle /\ DiscoveryIdle /\ ProgressIdle /\ BrowserIdle

\* a device without progress for the instance takes a snapshot as it is
LoadSnapshot(d, s) ==
    /\ acc[d] = {}
    /\ acc' = [acc EXCEPT ![d] = {s}]
    /\ used' = [used EXCEPT ![d] = {s}]
    /\ UNCHANGED snapshots
    /\ UNCHANGED outsideMerge

\* a device merges a snapshot it fetched into its value
MergeRemote(d, s) ==
    /\ acc[d] # {}
    /\ acc' = [acc EXCEPT ![d] = {Merge(Val(acc[d]), s)}]
    /\ used' = [used EXCEPT ![d] = @ \cup {s}]
    /\ UNCHANGED snapshots
    /\ UNCHANGED outsideMerge

\* a device merges its value, as the remote side, into a snapshot
MergeLocal(d, s) ==
    /\ acc[d] # {}
    /\ acc' = [acc EXCEPT ![d] = {Merge(s, Val(acc[d]))}]
    /\ used' = [used EXCEPT ![d] = @ \cup {s}]
    /\ UNCHANGED snapshots
    /\ UNCHANGED outsideMerge

\* a device merges the value the other device wrote back
MergeDevice(d, e) ==
    /\ d # e
    /\ acc[d] # {} /\ acc[e] # {}
    /\ acc' = [acc EXCEPT ![d] = {Merge(Val(acc[d]), Val(acc[e]))}]
    /\ used' = [used EXCEPT ![d] = @ \cup used[e]]
    /\ UNCHANGED snapshots
    /\ UNCHANGED outsideMerge

NextMerge ==
    \/ \E d \in Devices : \E s \in snapshots : LoadSnapshot(d, s)
    \/ \E d \in Devices : \E s \in snapshots : MergeRemote(d, s)
    \/ \E d \in Devices : \E s \in snapshots : MergeLocal(d, s)
    \/ \E d, e \in Devices : MergeDevice(d, e)

SpecMerge == InitMerge /\ [][NextMerge]_vars

(***************************************************************************)
(* One BasicTaskComponentProgress used with a config whose checkboxes the  *)
(* content authors can edit, next to the snapshot of it kept in storage.   *)
(***************************************************************************)
\* checkboxes: min_items of the config schema
MinConfigCheckboxes == 1

ConfigSizes == MinConfigCheckboxes..MaxCheckboxes

\* variant: one entry short of the config
AllUnchecked_OneShort(n) == [i \in 1..(n - 1) |-> FALSE]

\* create_fields_for_config / reset_checkboxes: [False] * len(config.checkboxes)
AllUnchecked(n) == [i \in 1..n |-> FALSE]

InitProgress ==
    /\ config_checkboxes \in ConfigSizes
    /\ checkbox_checked = AllUnchecked(config_checkboxes)
    /\ stored_checked = AllUnchecked(config_checkboxes)
    /\ progress_error = {}
    /\ BuildIdle /\ DiscoveryIdle /\ MergeIdle /\ BrowserIdle

\* the progress is created anew with the fields of create_fields_for_config
create_fields_for_config ==
    /\ checkbox_checked' = AllUnchecked(config_checkboxes)
    /\ progress_error' = {}
    /\ UNCHANGED <<config_checkboxes, stored_checked>>
    /\ UNCHANGED outsideProgress

\* set_checkbox_state(config, index, checked); index counts from 0
set_checkbox_state(index, checked) ==
    /\ IF index >= config_checkboxes
       THEN /\ progress_error' = {"index out of range"}
            /\ UNCHANGED checkbox_checked
       ELSE IF Len(checkbox_checked) # config_checkboxes
       THEN /\ progress_error' = {"progress and config disagree"}
            /\ UNCHANGED checkbox_checked
       ELSE /\ checkbox_checked' =
                   [checkbox_checked EXCEPT ![index + 1] = checked]
            /\ progress_error' = {}
    /\ UNCHANGED <<config_checkboxes, stored_checked>>
    /\ UNCHANGED outsideProgress

\* reset_checkboxes(config)
reset_checkboxes ==
    /\ checkbox_checked' = AllUnchecked(config_checkboxes)
    /\ progress_error' = {}
    /\ UNCHANGED <<config_checkboxes, stored_checked>>
    /\ UNCHANGED outsideProgress

\* the stored snapshot is merged into the progress by the trump strategy
MergeStored ==
    /\ checkbox_checked' = CheckboxTrump(checkbox_checked, stored_checked)
    /\ progress_error' = {}
    /\ UNCHANGED <<config_checkboxes, stored_checked>>
    /\ UNCHANGED outsideProgress

\* the progress is written back as the stored snapshot
StoreSnapshot ==
    /\ stored_checked' = checkbox_checked
    /\ UNCHANGED <<config_checkboxes, checkbox_checked, progress_error>>
    /\ UNCHANGED outsideProgress

\* the content is edited: the config has n checkboxes from now on
EditConfig(n) ==
    /\ n # config_checkboxes
    /\ config_checkboxes' = n
    /\ UNCHANGED <<checkbox_checked, stored_checked, progress_error>>
    /\ UNCHANGED outsideProgress

NextProgress ==
    \/ create_fields_for_config
    \/ \E index \in 0..MaxCheckboxes : \E checked \in BOOLEAN :
          set_checkbox_state(index, checked)
    \/ reset_checkboxes
    \/ MergeStored
    \/ StoreSnapshot
    \/ \E n \in ConfigSizes : EditConfig(n)

SpecProgress == InitProgress /\ [][NextProgress]_vars

(***************************************************************************)
(* handle_solid_connection of the /solid page, one step per stretch of     *)
(* code between two awaits.  What the browser answers at an await (the     *)
(* session, whether a call raises) is drawn at the step that reads it.     *)
(***************************************************************************)
max_attempts == 15

timeout_seconds == 30

max_persistence_failures == 3

\* strings a WebID or a provider parameter can be
UrlStrings ==
    {"", "  ", "https://alice.pod.example/profile/card#me",
     "http://bob.pod.example/me", "javascript:alert(1)", "https://"}

\* s.strip() is empty
BlankString(s) == s \in {"", "  "}

\* s.startswith('http://') or s.startswith('https://')
StartsWithHttp(s) ==
    s \in {"https://alice.pod.example/profile/card#me",
           "http://bob.pod.example/me", "https://"}

\* URL.new(s) does not throw
UrlParses(s) ==
    s \in {"https://alice.pod.example/profile/card#me",
           "http://bob.pod.example/me", "javascript:alert(1)"}

\* the try block of lines 125-131 ends without exception
UrlValidation(s) == StartsWithHttp(s) /\ UrlParses(s)

\* session.info: webId is {} when the session has none
SessionInfos == [isLoggedIn : BOOLEAN, webId : {{}} \cup {{u} : u \in UrlStrings}]

\* window.location: whether href contains code= and state=, and the value
\* of the provider= parameter of the query, {} when there is none
Urls ==
    [has_code : BOOLEAN, has_state : BOOLEAN,
     provider : {{}} \cup {{u} : u \in UrlStrings}]

\* variant: no URL counts as a callback
is_oauth_callback_Never(url) == FALSE

\* is_oauth_callback (line 84)
is_oauth_callback(url) == url.has_code /\ url.has_state

\* not webid or not webid.strip()
NoWebId(w) == w = {} \/ BlankString(Val(w))

\* session_info and getattr(session_info, 'isLoggedIn', False)
LoggedIn(info) == info.isLoggedIn

\* variant: the session is taken as persisted without looking at it
StillLoggedIn_Unchecked(info) == TRUE

\* final_session and getattr(final_session, 'isLoggedIn', False)
StillLoggedIn(info) == info.isLoggedIn

\* variant: stops only after more than max_persistence_failures failures
TooManyFailures_OneMore(failures) == failures > max_persistence_failures

\* persistence_failures >= max_persistence_failures
TooManyFailures(failures) == failures >= max_persistence_failures

\* attempt * 0.5 > timeout_seconds
TimedOut(n) == n * 5 > timeout_seconds * 10

\* custom_provider of lines 230-242, {} for None
CustomProvider(url) == url.provider

\* the issuer passed to solid_client.login (lines 259-264)
Issuer(url) ==
    IF CustomProvider(url) # {} /\ ~BlankString(Val(CustomProvider(url)))
    THEN Val(CustomProvider(url))
    ELSE "https://solidcommunity.net"

InitConnection ==
    /\ ConnectionIdle
    /\ BuildIdle /\ DiscoveryIdle /\ MergeIdle /\ ProgressIdle /\ LearnIdle
    /\ BootstrapIdle /\ ErrorIdle /\ StorageIdle

\* show_error(message) and return
ShowErrorAndReturn(message) ==
    /\ status' = "hidden"
    /\ error_message' = {message}
    /\ conn_pc' = "returned"

\* show_success() and return
ShowSuccessAndReturn ==
    /\ status' = "success"
    /\ conn_pc' = "returned"
    /\ UNCHANGED error_message

\* lines 44-89: the page shows the loading state, the wrapper and the
\* Solid libraries are looked up (loaded says whether both are there), the
\* session and the URL are read
StartConnection(url, info, loaded) ==
    /\ conn_pc = "idle"
    /\ current_url' = {url}
    /\ IF ~loaded
       THEN /\ ShowErrorAndReturn("Authentication error")
            /\ UNCHANGED session_info
       ELSE /\ status' = "loading"
            /\ error_message' = {}
            /\ session_info' = info
            /\ conn_pc' = IF is_oauth_callback(url) THEN "redirect"
                                                    ELSE "direct"
    /\ UNCHANGED <<attempt, persistence_failures, webid, ever_ready,
                   validation_passed, login_issuer, login_raised,
                   session_backup>>
    /\ UNCHANGED outsideConnection

\* lines 92-100: await session.handleIncomingRedirect(current_url)
HandleIncomingRedirect(raised) ==
    /\ conn_pc = "redirect"
    /\ IF raised
       THEN ShowErrorAndReturn("Authentication error")
       ELSE /\ conn_pc' = "poll"
            /\ UNCHANGED <<status, error_message>>
    /\ attempt' = 0
    /\ persistence_failures' = 0
    /\ UNCHANGED <<current_url, session_info, webid, ever_ready,
                   validation_passed, login_issuer, login_raised,
                   session_backup>>
    /\ UNCHANGED outsideConnection

\* lines 102-182 and 207-209: one pass of the loop body up to the
\* persistence wait; info is the session after the sleep, stored whether
\* one of the two localStorage writes went through
PollSession(info, stored) ==
    /\ conn_pc = "poll"
    /\ attempt < max_attempts
    /\ IF TimedOut(attempt)
       THEN /\ ShowErrorAndReturn("Authentication timed out")
            /\ UNCHANGED <<session_info, attempt, webid, ever_ready,
                           validation_passed, session_backup>>
       ELSE /\ session_info' = info
            /\ ever_ready' = (ever_ready \/ LoggedIn(info))
            /\ IF LoggedIn(info) /\ ~NoWebId(info.webId)
               THEN /\ webid' = info.webId
                    /\ validation_passed' = {UrlValidation(Val(info.webId))}
                    /\ session_backup' = IF stored THEN info.webId
                                                   ELSE session_backup
                    /\ conn_pc' = "persist"
                    /\ UNCHANGED attempt
               ELSE /\ attempt' = attempt + 1
                    /\ webid' = {}
                    /\ validation_passed' = {}
                    /\ UNCHANGED <<conn_pc, session_backup>>
            /\ UNCHANGED <<status, error_message>>
    /\ UNCHANGED <<current_url, persistence_failures, login_issuer,
                   login_raised>>
    /\ UNCHANGED outsideConnection

\* lines 184-206: the session is read again after the persistence wait
VerifyPersistence(info) ==
    /\ conn_pc = "persist"
    /\ session_info' = info
    /\ IF StillLoggedIn(info)
       THEN /\ ShowSuccessAndReturn
            /\ UNCHANGED <<attempt, persistence_failures, webid,
                           validation_passed>>
       ELSE /\ persistence_failures' = persistence_failures + 1
            /\ IF TooManyFailures(persistence_failures + 1)
               THEN /\ ShowErrorAndReturn("Session persistence is failing")
                    /\ UNCHANGED <<attempt, webid, validation_passed>>
               ELSE /\ attempt' = attempt + 1
                    /\ webid' = {}
                    /\ validation_passed' = {}
                    /\ conn_pc' = "poll"
                    /\ UNCHANGED <<status, error_message>>
    /\ UNCHANGED <<current_url, ever_ready, login_issuer, login_raised,
                   session_backup>>
    /\ UNCHANGED outsideConnection

\* lines 211-214: the loop ran out of attempts
AttemptsExhausted ==
    /\ conn_pc = "poll"
    /\ attempt = max_attempts
    /\ ShowErrorAndReturn("Authentication failed after multiple attempts")
    /\ UNCHANGED <<current_url, session_info, attempt, persistence_failures,
                   webid, ever_ready, validation_passed, login_issuer,
                   login_raised, session_backup>>
    /\ UNCHANGED outsideConnection

\* lines 219-255: not a callback; already logged in, or the provider
\* parameter is checked before the login
CheckExistingSession ==
    /\ conn_pc = "direct"
    /\ LET url == Val(current_url)
           custom_provider == CustomProvider(url)
       IN  IF LoggedIn(session_info)
           THEN ShowSuccessAndReturn
           ELSE IF /\ custom_provider # {}
                   /\ ~BlankString(Val(custom_provider))
                   /\ ~UrlValidation(Val(custom_provider))
           THEN ShowErrorAndReturn("Invalid custom provider URL")
           ELSE /\ conn_pc' = "login"
                /\ UNCHANGED <<status, error_message>>
    /\ UNCHANGED <<current_url, session_info, attempt, persistence_failures,
                   webid, ever_ready, validation_passed, login_issuer,
                   login_raised, session_backup>>
    /\ UNCHANGED outsideConnection

\* lines 259-264 with SolidClientWrapper.login: session.login either
\* redirects the page or raises, and the wrapper swallows what it raises
Login(raised) ==
    /\ conn_pc = "login"
    /\ login_issuer' = {Issuer(Val(current_url))}
    /\ login_raised' = raised
    /\ conn_pc' = "returned"
    /\ UNCHANGED <<current_url, session_info, attempt, persistence_failures,
                   webid, ever_ready, validation_passed, status,
                   error_message, session_backup>>
    /\ UNCHANGED outsideConnection

NextConnection ==
    \/ \E url \in Urls : \E info \in SessionInfos : \E loaded \in BOOLEAN :
          StartConnection(url, info, loaded)
    \/ \E raised \in BOOLEAN : HandleIncomingRedirect(raised)
    \/ \E info \in SessionInfos : \E stored \in BOOLEAN :
          PollSession(info, stored)
    \/ \E info \in SessionInfos : VerifyPersistence(info)
    \/ AttemptsExhausted
    \/ CheckExistingSession
    \/ \E raised \in BOOLEAN : Login(raised)

SpecConnection == InitConnection /\ [][NextConnection]_vars

(***************************************************************************)
(* check_authentication of the learn page.  Times are milliseconds as      *)
(* js.Date.now() gives them, on a clock that starts near the values used   *)
(* here.                                                                   *)
(***************************************************************************)
\* max_age = 60 * 60 * 1000
max_age == 60 * 60 * 1000

\* js.Date.now() at the check
CurrentTimes == {5000000}

\* timestamp of the stored backup, {} when the item has none: around the
\* current time and around one hour before it
StoredTimes ==
    {{}} \cup {{t + d} : t \in CurrentTimes \cup {t - max_age : t \in CurrentTimes},
                        d \in {-1, 0, 1}}

\* localStorage item mera_solid_session_backup: whether JSON.parse takes
\* it, and its fields
StoredItems ==
    [parses : BOOLEAN, timestamp : StoredTimes, isLoggedIn : BOOLEAN]

\* session.info after the restoration attempt, {} when it is empty
LiveSessions ==
    {{}} \cup {{info} : info \in
                 [isLoggedIn : BOOLEAN,
                  webId : {{}, {"https://alice.pod.example/profile/card#me"}}]}

\* stored_dict.get('timestamp', 0)
StoredTime(item) == IF item.timestamp = {} THEN 0 ELSE Val(item.timestamp)

\* variant: no check for a negative age
BackupRecent_NoLowerBound(age) == age < max_age

\* age < max_age and age >= 0
BackupRecent(age) == age < max_age /\ age >= 0

\* session_info and session_info.get('isLoggedIn', False)
SessionLoggedIn(info) == info # {} /\ Val(info).isLoggedIn

InitLearn ==
    /\ LearnIdle
    /\ BuildIdle /\ DiscoveryIdle /\ MergeIdle /\ ProgressIdle
    /\ ConnectionIdle
    /\ BootstrapIdle /\ ErrorIdle /\ StorageIdle

\* lines 22-38: the page is opened; lib says whether the Solid library is
\* on the page, item is the stored backup ({} for none), now the clock
StartCheck(lib, item, now) ==
    /\ learn_pc = "idle"
    /\ has_solid_library' = lib
    /\ stored_session' = item
    /\ current_time' = now
    /\ learn_pc' = IF lib THEN "restore" ELSE "backup"
    /\ UNCHANGED <<live_session, backup_accepted, content_revealed,
                   redirected>>
    /\ UNCHANGED outsideLearn

\* lines 38-64: after the restoration attempt session.info is read; an
\* empty info counts as not logged in
RestoreSession(raw) ==
    /\ learn_pc = "restore"
    /\ live_session' = IF raw = {} THEN {NoSession} ELSE raw
    /\ learn_pc' = "backup"
    /\ UNCHANGED <<has_solid_library, stored_session, current_time,
                   backup_accepted, content_revealed, redirected>>
    /\ UNCHANGED outsideLearn

\* lines 66-112: without a logged-in session the backup is looked at
CheckBackup ==
    /\ learn_pc = "backup"
    /\ backup_accepted' =
          /\ ~SessionLoggedIn(live_session)
          /\ stored_session # {}
          /\ Val(stored_session).parses
          /\ BackupRecent(current_time - StoredTime(Val(stored_session)))
    /\ learn_pc' = "display"
    /\ UNCHANGED <<has_solid_library, stored_session, current_time,
                   live_session, content_revealed, redirected>>
    /\ UNCHANGED outsideLearn

\* lines 114-135: the content is shown or the page goes to HELLO_URL
DisplayResult ==
    /\ learn_pc = "display"
    /\ IF SessionLoggedIn(live_session) \/ backup_accepted
       THEN content_revealed' = TRUE /\ UNCHANGED redirected
       ELSE redirected' = TRUE /\ UNCHANGED content_revealed
    /\ learn_pc' = "done"
    /\ UNCHANGED <<has_solid_library, stored_session, current_time,
                   live_session, backup_accepted>>
    /\ UNCHANGED outsideLearn

NextLearn ==
    \/ \E lib \in BOOLEAN :
          \E item \in {{}} \cup {{i} : i \in StoredItems} :
             \E now \in CurrentTimes : StartCheck(lib, item, now)
    \/ \E raw \in LiveSessions : RestoreSession(raw)
    \/ CheckBackup
    \/ DisplayResult

SpecLearn == InitLearn /\ [][NextLearn]_vars

(***************************************************************************)
(* ErrorDisplay: the errors shown in the timeline's error slot              *)
(* (src/static/py/ui/error_display.py).                                     *)
(***************************************************************************)
\* most error elements the document holds in the runs explored
MaxErrorElements == 3

\* the error ids callers pass to show_system_error and show_network_error
\* (the defaults of the two methods)
ErrorIdInputs == {"system", "network"}

\* the component ids passed to show_component_error
ErrorComponentIds == {"c1"}

\* class attribute the timeline gives its error slot:
\* <div id="..." class="hidden mb-6">
ErrorSlotClass == {"hidden", "mb-6"}

\* className.replace(old, new) on the class tokens of the error slot
ReplaceClass(cls, old, new) ==
    IF old \in cls THEN (cls \ {old}) \cup {new} ELSE cls

\* del d[k]
Del(m, k) == [x \in DOMAIN m \ {k} |-> m[x]]

\* the ids of a sequence of elements
ElementIds(elements) == {elements[i] : i \in DOMAIN elements}

\* position of the first element of the sequence that carries the id
FirstIndex(elements, id) ==
    CHOOSE i \in DOMAIN elements :
        /\ elements[i] = id
        /\ \A j \in DOMAIN elements : elements[j] = id => i <= j

\* element.remove() on the first element that carries the id
RemoveFirst(elements, id) ==
    IF id \in ElementIds(elements)
    THEN LET i == FirstIndex(elements, id)
         IN  [k \in 1..(Len(elements) - 1) |->
                 IF k < i THEN elements[k] ELSE elements[k + 1]]
    ELSE elements

\* the ErrorDisplay and the part of the document it touches, as one value
ErrorState ==
    [active |-> active_errors, has_slot |-> has_error_slot,
     cls |-> error_slot_class, slot |-> slot_elements,
     floating |-> floating_elements]

\* document.getElementById("error-<id>").remove(): the first element of the
\* document with the id; the slot precedes the floating container
RemoveElement(st, error_id) ==
    IF error_id \in ElementIds(st.slot)
    THEN [st EXCEPT !.slot = RemoveFirst(st.slot, error_id)]
    ELSE [st EXCEPT !.floating = RemoveFirst(st.floating, error_id)]

\* _hide_error_slot, lines 172-177
HideErrorSlot(st) ==
    IF st.has_slot
    THEN [st EXCEPT !.cls = ReplaceClass(st.cls, "block", "hidden"),
                    !.slot = <<>>]
    ELSE st

\* clear_error, lines 49-59
ClearError(st, error_id) ==
    LET removed ==
            IF error_id \in DOMAIN st.active
            THEN [RemoveElement(st, error_id)
                     EXCEPT !.active = Del(st.active, error_id)]
            ELSE st
    IN  IF DOMAIN removed.active = {} THEN HideErrorSlot(removed)
                                       ELSE removed

\* clear_all_errors, lines 61-64: clear_error for each key of active_errors
RECURSIVE ClearEach(_, _)
ClearEach(st, ids) ==
    IF ids = {} THEN st
    ELSE LET id == CHOOSE x \in ids : TRUE
         IN  ClearEach(ClearError(st, id), ids \ {id})

\* _show_error, lines 66-91 (_create_floating_error, lines 179-208, when the
\* document has no error slot)
ShowError(st, error_id, error_type) ==
    LET stored == [st EXCEPT !.active = Put(st.active, error_id, error_type)]
    IN  IF ~st.has_slot
        THEN [stored EXCEPT !.floating = Append(st.floating, error_id)]
        ELSE [stored EXCEPT
                 !.cls = ReplaceClass(st.cls, "hidden", "block"),
                 !.slot = Append(st.slot, error_id)]

\* the ErrorDisplay and the document after a method returned st
SetErrorState(st) ==
    /\ active_errors' = st.active
    /\ error_slot_class' = st.cls
    /\ slot_elements' = st.slot
    /\ floating_elements' = st.floating
    /\ has_error_slot' = st.has_slot

\* room for one more error element
CanShow == Len(slot_elements) + Len(floating_elements) < MaxErrorElements

\* ErrorDisplay(timeline_container) after TimelineContainer(...) built the
\* slot, or ErrorDisplay() on a page without the slot
InitErrorDisplay ==
    /\ active_errors = <<>>
    /\ has_error_slot \in BOOLEAN
    /\ error_slot_class = IF has_error_slot THEN ErrorSlotClass ELSE {}
    /\ slot_elements = <<>>
    /\ floating_elements = <<>>
    /\ BuildIdle /\ DiscoveryIdle /\ MergeIdle /\ ProgressIdle
    /\ ConnectionIdle /\ LearnIdle /\ BootstrapIdle /\ StorageIdle

\* lines 15-25
show_system_error(error_id) ==
    /\ CanShow
    /\ SetErrorState(ShowError(ErrorState, error_id, "system"))
    /\ UNCHANGED outsideErrorDisplay

\* lines 27-36
show_network_error(error_id) ==
    /\ CanShow
    /\ SetErrorState(ShowError(ErrorState, error_id, "network"))
    /\ UNCHANGED outsideErrorDisplay

\* lines 38-47
show_component_error(component_id) ==
    /\ CanShow
    /\ SetErrorState(ShowError(ErrorState, "component-" \o component_id,
                               "component"))
    /\ UNCHANGED outsideErrorDisplay

\* lines 49-59
clear_error(error_id) ==
    /\ SetErrorState(ClearError(ErrorState, error_id))
    /\ UNCHANGED outsideErrorDisplay

\* lines 61-64
clear_all_errors ==
    /\ SetErrorState(ClearEach(ErrorState, DOMAIN active_errors))
    /\ UNCHANGED outsideErrorDisplay

NextErrorDisplay ==
    \/ \E error_id \in ErrorIdInputs : show_system_error(error_id)
    \/ \E error_id \in ErrorIdInputs : show_network_error(error_id)
    \/ \E component_id \in ErrorComponentIds :
          show_component_error(component_id)
    \/ \E error_id \in ErrorIdInputs \cup {"component-c1"} :
          clear_error(error_id)
    \/ clear_all_errors

SpecErrorDisplay == InitErrorDisplay /\ [][NextErrorDisplay]_vars

(***************************************************************************)
(* Page bootstrap: start_bootstrap polls the bridge and initializes the     *)
(* page or shows the Solid connection error                                 *)
(* (src/static/py/initialization/bootstrap.py).                             *)
(***************************************************************************)
MAX_ATTEMPTS == 50

\* what one attempt observes: hasattr(js.window, 'meraBridge'), and what
\* `await js.window.meraBridge.check()` does when the bridge is there
BridgeChecks == {"true", "false", "raises"}

BridgePolls ==
    {[present |-> FALSE, check |-> "uncalled"]}
        \cup {[present |-> TRUE, check |-> c] : c \in BridgeChecks}

\* line 119: the bridge exists and its check() is true
BridgeReady_PresenceOnly(poll) == poll.present

BridgeReady(poll) == poll.present /\ poll.check = "true"

\* lines 116-132: the for loop is over
LoopOver == solid_session_ready \/ boot_attempt = MAX_ATTEMPTS

\* setup_ui, lines 16-32: a new TimelineContainer rebuilds the content of the
\* lesson container with an empty hidden error slot, and a new
\* SolidConnectionErrorDisplay starts with no active error
SetupUi(st) ==
    [st EXCEPT !.active = <<>>, !.has_slot = TRUE,
               !.cls = ErrorSlotClass, !.slot = <<>>]

\* show_solid_connection_error, lines 37-46
ShowSolidConnectionError(st) == ShowError(st, "solid-connection", "solid")

\* lines 110-114: the body of start_bootstrap up to the loop
EnterBootstrap ==
    /\ boot_pc' = "polling"
    /\ boot_attempt' = 0
    /\ solid_session_ready' = FALSE
    /\ last_poll' = [present |-> FALSE, check |-> "none"]
    /\ initialize_calls' = 0
    /\ no_solid_calls' = 0

\* the module has been loaded: lines 13-14 and 139-140 leave the globals and
\* the references of bootstrap_instance None, line 143 schedules the task
InitBootstrap ==
    /\ boot_pc = "scheduled"
    /\ boot_attempt = 0
    /\ solid_session_ready = FALSE
    /\ last_poll = [present |-> FALSE, check |-> "none"]
    /\ initialize_calls = 0
    /\ no_solid_calls = 0
    /\ ui_error_display = FALSE
    /\ instance_error_display = FALSE
    /\ auth_status_hidden = FALSE
    /\ lesson_container_shown = FALSE
    /\ ErrorIdle
    /\ BuildIdle /\ DiscoveryIdle /\ MergeIdle /\ ProgressIdle
    /\ ConnectionIdle /\ LearnIdle /\ StorageIdle

\* line 143: the scheduled task starts
start_bootstrap ==
    /\ boot_pc = "scheduled"
    /\ EnterBootstrap
    /\ UNCHANGED <<ui_error_display, instance_error_display,
                   auth_status_hidden, lesson_container_shown>>
    /\ UNCHANGED errorVars
    /\ UNCHANGED outsideBootstrap

\* lines 116-130: one attempt of the loop
PollBridge(poll) ==
    /\ boot_pc = "polling"
    /\ ~LoopOver
    /\ boot_attempt' = boot_attempt + 1
    /\ last_poll' = poll
    /\ solid_session_ready' = BridgeReady(poll)
    /\ UNCHANGED <<boot_pc, initialize_calls, no_solid_calls,
                   ui_error_display, instance_error_display,
                   auth_status_hidden, lesson_container_shown>>
    /\ UNCHANGED errorVars
    /\ UNCHANGED outsideBootstrap

\* lines 132-133 and 94-98
initialize_state_solid ==
    /\ boot_pc = "polling"
    /\ LoopOver
    /\ solid_session_ready
    /\ initialize_calls' = initialize_calls + 1
    /\ SetErrorState(SetupUi(ErrorState))
    /\ ui_error_display' = TRUE
    /\ auth_status_hidden' = TRUE
    /\ lesson_container_shown' = TRUE
    /\ boot_pc' = "initialized"
    /\ UNCHANGED <<boot_attempt, solid_session_ready, last_poll,
                   no_solid_calls, instance_error_display>>
    /\ UNCHANGED outsideBootstrap

\* lines 134-136 and 101-106
no_solid_connection ==
    /\ boot_pc = "polling"
    /\ LoopOver
    /\ ~solid_session_ready
    /\ no_solid_calls' = no_solid_calls + 1
    /\ SetErrorState(ShowSolidConnectionError(SetupUi(ErrorState)))
    /\ ui_error_display' = TRUE
    /\ auth_status_hidden' = TRUE
    /\ lesson_container_shown' = TRUE
    /\ boot_pc' = "no_solid"
    /\ UNCHANGED <<boot_attempt, solid_session_ready, last_poll,
                   initialize_calls, instance_error_display>>
    /\ UNCHANGED outsideBootstrap

\* BootstrapManager.retry_solid_connection, lines 81-86, called through
\* window.bootstrap_instance once a run is over
retry_solid_connection ==
    /\ boot_pc \in {"initialized", "no_solid"}
    /\ SetErrorState(IF instance_error_display
                     THEN ClearError(ErrorState, "solid-connection")
                     ELSE ErrorState)
    /\ EnterBootstrap
    /\ UNCHANGED <<ui_error_display, instance_error_display,
                   auth_status_hidden, lesson_container_shown>>
    /\ UNCHANGED outsideBootstrap

\* the steps of one run of start_bootstrap
BootstrapRun ==
    \/ start_bootstrap
    \/ \E poll \in BridgePolls : PollBridge(poll)
    \/ initialize_state_solid
    \/ no_solid_connection

NextBootstrap ==
    \/ start_bootstrap
    \/ \E poll \in BridgePolls : PollBridge(poll)
    \/ initialize_state_solid
    \/ no_solid_connection
    \/ retry_solid_connection

SpecBootstrap == InitBootstrap /\ [][NextBootstrap]_vars

\* the event loop resumes the task after every await
SpecBootstrapLive == SpecBootstrap /\ WF_vars(BootstrapRun)

(***************************************************************************)
(* SolidAuth: the session gate and the progress files of the pod            *)
(* (src/static/py/solid_auth.py; LessonProgress of                          *)
(* src/static/py/core/lesson_progress.py overrides save and load with the   *)
(* same bodies).                                                            *)
(***************************************************************************)
\* the WebIDs a logged-in session reports
AuthWebIds == {"https://alice.pod/profile/card#me", "https://bob.example/me"}

\* session.info of the default session; a logged-in session may lack a WebID
AuthSessions ==
    {NoSession}
        \cup {[isLoggedIn |-> TRUE, webId |-> w] :
                 w \in {{}} \cup {{x} : x \in AuthWebIds}}

LessonIds == {"lesson-1", "lesson-2"}

\* line 88: info.webId.split('/profile/card#me')[0] + '/'
PodUrlOf(web_id) ==
    CASE web_id = "https://alice.pod/profile/card#me" -> "https://alice.pod/"
      [] web_id = "https://bob.example/me" -> "https://bob.example/me/"

\* what createContainerAt does: it returns, or raises a 409 Conflict, or
\* raises another error
ContainerOutcomes == {"ok", "conflict", "error"}

\* what overwriteFile and getFile do: they return or raise
FileOutcomes == {"ok", "error"}

\* ensure_directory_exists, lines 60-76
DirectoryEnsured(container) == container \in {"ok", "conflict"}

\* lines 114-146: the value save_lesson_progress returns once the pod URL is
\* known; the value of ensure_directory_exists (line 117) is not used
SaveReturn_RequiresDirectory(directory_ensured, overwrite) ==
    IF directory_ensured /\ overwrite = "ok" THEN "True" ELSE "False"

SaveReturn(directory_ensured, overwrite) ==
    IF overwrite = "ok" THEN "True" ELSE "False"

\* line 120 and line 163: the file of a lesson in the pod
FileOf(url, lesson_id) == <<url, lesson_id>>

\* SolidAuth(), lines 11-21
InitStorage ==
    /\ pod_url = {}
    /\ auth_session \in AuthSessions
    /\ session_gate = FALSE
    /\ last_op = "none"
    /\ last_lesson = {}
    /\ last_return = "none"
    /\ last_storage_calls = <<>>
    /\ ensured = {}
    /\ pod_files = {}
    /\ BuildIdle /\ DiscoveryIdle /\ MergeIdle /\ ProgressIdle
    /\ ConnectionIdle /\ LearnIdle /\ BootstrapIdle /\ ErrorIdle

\* check_session, lines 78-97; a logged-in session without WebID makes
\* line 88 raise, which line 95 catches
check_session ==
    LET got_url == auth_session.isLoggedIn /\ auth_session.webId # {}
    IN  /\ pod_url' = IF got_url THEN {PodUrlOf(Val(auth_session.webId))}
                                 ELSE pod_url
        /\ last_return' = IF got_url THEN "True" ELSE "False"
        /\ session_gate' = (session_gate \/ got_url)
        /\ last_op' = "check_session"
        /\ last_lesson' = {}
        /\ last_storage_calls' = <<>>
        /\ ensured' = {}
        /\ UNCHANGED <<auth_session, pod_files>>
        /\ UNCHANGED outsideStorage

\* save_lesson_progress, lines 99-146
save_lesson_progress(lesson_id, container, overwrite) ==
    /\ last_op' = "save"
    /\ last_lesson' = {lesson_id}
    /\ IF pod_url = {}
       THEN /\ last_return' = "False"
            /\ last_storage_calls' = <<>>
            /\ ensured' = {}
            /\ UNCHANGED pod_files
       ELSE /\ last_storage_calls' =
                   <<[name |-> "createContainerAt", outcome |-> container],
                     [name |-> "overwriteFile", outcome |-> overwrite]>>
            /\ ensured' = {DirectoryEnsured(container)}
            /\ last_return' = SaveReturn(DirectoryEnsured(container), overwrite)
            /\ pod_files' =
                   IF overwrite = "ok"
                   THEN pod_files \cup {FileOf(Val(pod_url), lesson_id)}
                   ELSE pod_files
    /\ UNCHANGED <<pod_url, auth_session, session_gate>>
    /\ UNCHANGED outsideStorage

\* load_lesson_progress, lines 148-181; getFile raises for a missing file
load_lesson_progress(lesson_id, get) ==
    /\ last_op' = "load"
    /\ last_lesson' = {lesson_id}
    /\ ensured' = {}
    /\ IF pod_url = {}
       THEN /\ last_return' = "None"
            /\ last_storage_calls' = <<>>
       ELSE LET found == /\ get = "ok"
                         /\ FileOf(Val(pod_url), lesson_id) \in pod_files
            IN  /\ last_storage_calls' =
                       <<[name |-> "getFile",
                          outcome |-> IF found THEN "ok" ELSE "error"]>>
                /\ last_return' = IF found THEN "progress_data" ELSE "None"
    /\ UNCHANGED <<pod_url, auth_session, session_gate, pod_files>>
    /\ UNCHANGED outsideStorage

\* logout, lines 224-231; session.logout() returns or raises
logout(raised) ==
    /\ last_op' = "logout"
    /\ last_lesson' = {}
    /\ last_return' = "None"
    /\ last_storage_calls' = <<>>
    /\ ensured' = {}
    /\ session_gate' = FALSE
    /\ IF raised
       THEN UNCHANGED <<pod_url, auth_session>>
       ELSE /\ pod_url' = {}
            /\ auth_session' = NoSession
    /\ UNCHANGED pod_files
    /\ UNCHANGED outsideStorage

NextStorage ==
    \/ check_session
    \/ \E lesson_id \in LessonIds :
          \E container \in ContainerOutcomes :
             \E overwrite \in FileOutcomes :
                save_lesson_progress(lesson_id, container, overwrite)
    \/ \E lesson_id \in LessonIds :
          \E get \in FileOutcomes : load_lesson_progress(lesson_id, get)
    \/ \E raised \in BOOLEAN : logout(raised)

SpecStorage == InitStorage /\ [][NextStorage]_vars

(***************************************************************************)
(* Vocabulary of the properties.                                           *)
(***************************************************************************)
\* parse_all_entities has returned its collections to main
BuildCompleted == pc \in {"generate", "done"}

\* the last step read a lesson or menu file
FileRead == lessons_read' # lessons_read \/ menus_read' # menus_read

\* the component entries (id, type) a file declares
Occurrences(yaml_file) ==
    {FlattenPages(yaml_file.pages)[k] :
        k \in DOMAIN FlattenPages(yaml_file.pages)}

\* positions of the ingested documents that declare component id cid
DeclaredAt(cid) ==
    {i \in DOMAIN ingested :
        \E occ \in Occurrences(ingested[i].file) : occ.id = {cid}}

\* type names of the discovered (registered) component types
RegisteredNames == {components[i].typeName : i \in DOMAIN components}

RECURSIVE LessonIdsOfDomain(_, _)
\* ids of the lessons of the history whose domainId is d, in order
LessonIdsOfDomain(history, d) ==
    IF history = <<>> THEN <<>>
    ELSE (IF Head(history).kind = "lesson"
             /\ Head(history).file.metadata.domainId = {d}
          THEN <<Val(Head(history).file.metadata.id)>> ELSE <<>>)
             \o LessonIdsOfDomain(Tail(history), d)

(***************************************************************************)
(* C1.  Two ingested documents declaring one component id with two         *)
(* different types make the build fail with the type-conflict error.       *)
(* Stated as the claim states it; the code skips component id 0 (see the   *)
(* truthiness test of line 224) and the build goes on there.               *)
(***************************************************************************)
C1_ConflictFailsBuild ==
    (\E i, j \in DOMAIN ingested :
        \E a \in Occurrences(ingested[i].file),
           c \in Occurrences(ingested[j].file) :
            a.id = c.id /\ a.type # c.type)
    => (pc = "raised" /\ error # {})

(***************************************************************************)
(* C2.  When the build completes, every component occurrence (id, type)    *)
(* of every ingested document has componentIdToType[id] = type.            *)
(***************************************************************************)
C2_OccurrencesResolve ==
    BuildCompleted =>
        \A i \in DOMAIN ingested :
            \A occ \in Occurrences(ingested[i].file) :
                /\ Val(occ.id) \in DOMAIN component_id_to_type
                /\ component_id_to_type[Val(occ.id)] = Val(occ.type)

C4_FirstOccurrenceKept ==
    /\ Len(all_entities) = Len(ingested)
    /\ \A i \in DOMAIN all_entities :
          all_entities[i] = EntityInfo(ingested[i].file, ingested[i].kind)

\* a later document reused a recorded id and the build went on to return
C4_Witness ==
    /\ BuildCompleted
    /\ \E i \in DOMAIN all_entities : all_entities[i].id \in duplicate_errors

(***************************************************************************)
(* C5.  Entity ids are unique across the catalog: the entity list has      *)
(* exactly one entry for each id of the entity-id set, so no id is both a  *)
(* lesson and a menu.                                                      *)
(***************************************************************************)
C5_EntityIdsUnique ==
    /\ {all_entities[i].id : i \in DOMAIN all_entities} = entity_ids
    /\ \A i, j \in DOMAIN all_entities :
          all_entities[i].id = all_entities[j].id => i = j

\* a lesson and a menu are recorded and a duplicate id was turned away
C5_Witness ==
    /\ BuildCompleted
    /\ duplicate_errors # {}
    /\ \E i, j \in DOMAIN all_entities :
          /\ all_entities[i].entityType = "lesson"
          /\ all_entities[j].entityType = "menu"

(***************************************************************************)
(* C6.  A document whose metadata has no id is skipped without failing:    *)
(* the loop goes on and none of the indices changes.                       *)
(***************************************************************************)
C6_NoIdSkipped ==
    [][(FileRead /\ yaml_id' = {})
        => (/\ pc' = pc
            /\ error' = {}
            /\ UNCHANGED <<all_entities, entity_ids, component_ids,
                           component_id_to_type, component_to_lesson_map,
                           domain_lesson_map>>)]_vars

\* the last file of the lessons had no id and the build still completed
\* with the content of the other one
C6_Witness ==
    /\ pc = "done"
    /\ yaml_id = {}
    /\ outcome = "skipped"
    /\ lessons_read = 2
    /\ menus_read = 0
    /\ component_ids # {}

C8_TypesRegistered ==
    BuildCompleted =>
        \A cid \in DOMAIN component_id_to_type :
            component_id_to_type[cid] \in RegisteredNames

(***************************************************************************)
(* C9.  After the build, for every domain id d the domain map holds        *)
(* exactly the ingested lessons whose domainId is d, in ingestion order,   *)
(* and a domain without lessons has no entry.                              *)
(***************************************************************************)
C9_DomainLessonMap ==
    BuildCompleted =>
        \A d \in {Val(x) : x \in DomainIdValues \ {{}}}
                    \cup DOMAIN domain_lesson_map :
            LessonIdsOfDomain(ingested, d) =
                (IF d \in DOMAIN domain_lesson_map
                 THEN domain_lesson_map[d] ELSE <<>>)

(***************************************************************************)
(* C10.  As claimed: the owner recorded for a component id is the entity   *)
(* of the first ingested document that declares the id.                    *)
(***************************************************************************)
C10_FirstSeenOwner ==
    \A cid \in DOMAIN component_to_lesson_map :
        \E i \in DeclaredAt(cid) :
            /\ \A j \in DeclaredAt(cid) : i <= j
            /\ component_to_lesson_map[cid] = Val(ingested[i].file.metadata.id)

(***************************************************************************)
(* C10, amended.  While no conflict has aborted the build, the owner       *)
(* recorded for a component id is the last ingested lesson that declares   *)
(* the id: a later lesson overwrites it and a menu never does.             *)
(***************************************************************************)
C10_LastLessonOwner ==
    pc # "raised" =>
        \A cid \in DOMAIN component_to_lesson_map :
            \E i \in DeclaredAt(cid) :
                /\ ingested[i].kind = "lesson"
                /\ \A j \in DeclaredAt(cid) :
                      ingested[j].kind = "lesson" => j <= i
                /\ component_to_lesson_map[cid]
                      = Val(ingested[i].file.metadata.id)

\* the same component id is declared with the same type by two ingested
\* lessons
C10_Witness ==
    /\ BuildCompleted
    /\ \E cid \in DOMAIN component_to_lesson_map :
          /\ Cardinality(DeclaredAt(cid)) = 2
          /\ \A i \in DeclaredAt(cid) : ingested[i].kind = "lesson"

(***************************************************************************)
(* C11.  As claimed: after the build every id of the component-id set has  *)
(* an owner in the reverse index, and the owner is in the entity-id set.   *)
(***************************************************************************)
C11_EveryComponentOwned ==
    BuildCompleted =>
        \A cid \in component_ids :
            /\ cid \in DOMAIN component_to_lesson_map
            /\ component_to_lesson_map[cid] \in entity_ids

(***************************************************************************)
(* C11, amended.  After the build the reverse index holds exactly the      *)
(* indexed component ids that an ingested lesson declares, each owned by   *)
(* a lesson of the entity-id set; a component id that only menus declare   *)
(* is in the component-id set and has no owner.                            *)
(***************************************************************************)
C11_LessonComponentsOwned ==
    BuildCompleted =>
        /\ \A cid \in component_ids :
              cid \in DOMAIN component_to_lesson_map
                  <=> \E i \in DeclaredAt(cid) : ingested[i].kind = "lesson"
        /\ \A cid \in DOMAIN component_to_lesson_map :
              /\ cid \in component_ids
              /\ component_to_lesson_map[cid] \in entity_ids
              /\ \E i \in DOMAIN all_entities :
                    /\ all_entities[i].id = component_to_lesson_map[cid]
                    /\ all_entities[i].entityType = "lesson"

\* a lesson and a menu were ingested and a component id that only the menu
\* declares is indexed without owner
C11_Witness ==
    /\ BuildCompleted
    /\ Len(ingested) = 2
    /\ \E cid \in component_ids : cid \notin DOMAIN component_to_lesson_map

\* entity ids the runtime may ask about
QueryIds == {0, 10, 11, 12}

(***************************************************************************)
(* C12.  On the written registry getEntityPageCount(id) returns the        *)
(* page count recorded for id when hasEntity(id), and throws not-found     *)
(* for every other id, never answering a value; the metrics map has an     *)
(* entry for exactly the ids of the entity-id set.                         *)
(***************************************************************************)
C12_PageCountOrNotFound ==
    registry # {} =>
        LET reg == Val(registry)
        IN  /\ DOMAIN reg.lessonMetrics = entity_ids
            /\ \A id \in QueryIds :
                  LET r == getEntityPageCount(reg, id)
                  IN  IF hasEntity(reg, id)
                      THEN /\ r.thrown = {}
                           /\ \E i \in DOMAIN ingested :
                                 /\ ingested[i].file.metadata.id = {id}
                                 /\ r.value = {Len(ingested[i].file.pages)}
                      ELSE r.thrown # {} /\ r.value = {}

\* the registry holds an entity without pages, whose page count 0 is a
\* value and not a sentinel, and ids it does not know
C12_Witness ==
    /\ registry # {}
    /\ \E id \in QueryIds :
          /\ hasEntity(Val(registry), id)
          /\ getEntityPageCount(Val(registry), id).value = {0}
    /\ \E id \in QueryIds : ~hasEntity(Val(registry), id)

\* the file scanned last is a component module
ScannedModule ==
    last_source # {} /\ Val(last_source).stem # "baseComponentCore"

\* the file scanned last was appended to the discovered components
LastRegistered ==
    /\ Val(last_source).stem \notin skipped
    /\ \E i \in DOMAIN registered :
          /\ registered[i].file = Val(last_source).stem
          /\ {registered[i].typeName} = Val(last_source).typeName

\* the file scanned last was skipped with a warning
LastExcluded ==
    /\ Val(last_source).stem \in skipped
    /\ \A i \in DOMAIN registered : registered[i].file # Val(last_source).stem

(***************************************************************************)
(* C13 as stated.  A component module is excluded when it lacks a config   *)
(* schema, a progress schema or an initializer function; a module with     *)
(* those three and a literal type tag is registered under the tag.         *)
(***************************************************************************)
C13_ThreeExportsSuffice ==
    ScannedModule =>
        LET src == Val(last_source)
        IN  /\ (src.configSchema = {} \/ src.progressSchema = {}
                    \/ src.initializerFunction = {}) => LastExcluded
            /\ (src.configSchema # {} /\ src.progressSchema # {}
                    /\ src.initializerFunction # {} /\ src.typeName # {})
                   => LastRegistered

(***************************************************************************)
(* C13.  A component module is excluded (with a warning) whenever it       *)
(* lacks a component class, a config schema, a progress schema, a literal  *)
(* type tag or an initializer function; a module with those five is        *)
(* registered under its tag, with or without a validator function.         *)
(***************************************************************************)
C13_RequiredExports ==
    ScannedModule =>
        LET src == Val(last_source)
            complete == /\ src.componentClass # {}
                        /\ src.configSchema # {}
                        /\ src.progressSchema # {}
                        /\ src.typeName # {}
                        /\ src.initializerFunction # {}
        IN  /\ ~complete => LastExcluded
            /\ complete => LastRegistered

\* a module without validator function was registered, and the module
\* scanned after it, which lacks nothing but its component class, was
\* excluded
C13_Witness ==
    /\ ScannedModule
    /\ \E i \in DOMAIN registered : registered[i].validatorFunction = {}
    /\ LET src == Val(last_source)
       IN  /\ src.componentClass = {}
           /\ src.configSchema # {} /\ src.progressSchema # {}
           /\ src.typeName # {} /\ src.initializerFunction # {}
    /\ LastExcluded

(***************************************************************************)
(* C14.  After registry construction no two registered descriptors have    *)
(* the same type name.                                                     *)
(***************************************************************************)
C14_NoTwoEntriesPerTypeName ==
    \A i, j \in DOMAIN registered :
        registered[i].typeName = registered[j].typeName => i = j

\* the values a merge can be applied to: the snapshots and what the
\* devices have merged so far
Operands == snapshots \cup UNION {acc[d] : d \in Devices}

\* i-th checkbox of a list, an index beyond its end counting as false
Checked(list, i) == i \in DOMAIN list /\ list[i]

(***************************************************************************)
(* C15.  The reducer of the checkbox list yields a list as long as the     *)
(* longer input, with merged[i] = a[i] \/ b[i], an index missing from the  *)
(* shorter input counting as false.                                        *)
(***************************************************************************)
C15_ElementwiseOr ==
    /\ \A x, y \in Operands :
          LET a == x.checkbox_checked
              b == y.checkbox_checked
              merged == CheckboxTrump(a, b)
          IN  /\ Len(merged) >= Len(a) /\ Len(merged) >= Len(b)
              /\ Len(merged) = Len(a) \/ Len(merged) = Len(b)
              /\ \A i \in 1..Len(merged) :
                    merged[i] = (Checked(a, i) \/ Checked(b, i))
    /\ \A d \in Devices :
          acc[d] # {} =>
              LET merged == Val(acc[d]).checkbox_checked
              IN  /\ \A s \in used[d] : Len(merged) >= Len(s.checkbox_checked)
                  /\ \E s \in used[d] : Len(merged) = Len(s.checkbox_checked)
                  /\ \A i \in 1..Len(merged) :
                        merged[i] = \E s \in used[d] :
                                        Checked(s.checkbox_checked, i)

\* a device merged a shorter list with a longer one whose extra entry is
\* checked
C15_Witness ==
    \E d \in Devices : \E s, t \in used[d] :
        /\ Len(s.checkbox_checked) < Len(t.checkbox_checked)
        /\ t.checkbox_checked[Len(t.checkbox_checked)]
        /\ acc[d] # {}
        /\ Len(Val(acc[d]).checkbox_checked) = Len(t.checkbox_checked)

(***************************************************************************)
(* C16.  Merge is commutative, lists of different lengths included.        *)
(***************************************************************************)
C16_Commutative ==
    \A a, b \in Operands : Merge(a, b) = Merge(b, a)

\* operands with lists of different lengths and different flags
C16_Witness ==
    \E d \in Devices : \E s \in snapshots :
        /\ acc[d] # {}
        /\ Cardinality(used[d]) > 1
        /\ Len(s.checkbox_checked) # Len(Val(acc[d]).checkbox_checked)
        /\ s.complete # Val(acc[d]).complete

(***************************************************************************)
(* C17.  Merge is idempotent: merging b into merge(a, b) again changes     *)
(* nothing, and merging a value with itself yields that value.             *)
(***************************************************************************)
C17_Idempotent ==
    \A a, b \in Operands :
        /\ Merge(Merge(a, b), b) = Merge(a, b)
        /\ Merge(a, a) = a

\* a device holds a merge of two snapshots that differs from both
C17_Witness ==
    \E d \in Devices : \E a, b \in used[d] :
        /\ acc[d] = {Merge(a, b)}
        /\ Merge(a, b) # a /\ Merge(a, b) # b
        /\ \E i \in DOMAIN a.checkbox_checked : a.checkbox_checked[i]

(***************************************************************************)
(* C18.  Completion is monotonic: the merged complete is true when it is   *)
(* true in either input, and no merge turns the flag of a device from      *)
(* true back to false.                                                     *)
(***************************************************************************)
C18_MonotonicCompletion ==
    /\ [](\A a, b \in Operands :
             (a.complete \/ b.complete) => Merge(a, b).complete)
    /\ [][\A d \in Devices :
             (acc[d] # {} /\ Val(acc[d]).complete)
                 => (acc'[d] # {} /\ Val(acc'[d]).complete)]_vars

\* a device whose flag is true has merged a snapshot whose flag is false
C18_Witness ==
    \E d \in Devices : \E a, b \in used[d] :
        /\ a.complete /\ ~b.complete
        /\ acc[d] # {} /\ Val(acc[d]).complete

(***************************************************************************)
(* C19.  The merged value does not depend on the order or the number of    *)
(* merges: merge is associative, and two devices that have merged the      *)
(* same snapshots, in any interleaving, hold the same value.               *)
(***************************************************************************)
C19_OrderIndependent ==
    /\ \A a, b, c \in snapshots :
          Merge(Merge(a, b), c) = Merge(a, Merge(b, c))
    /\ \A d, e \in Devices :
          (acc[d] # {} /\ acc[e] # {} /\ used[d] = used[e])
              => acc[d] = acc[e]

\* both devices have merged all of three snapshots, none of which is the
\* result
C19_Witness ==
    /\ Cardinality(snapshots) = 3
    /\ \A d \in Devices : used[d] = snapshots /\ acc[d] \cap snapshots = {}

\* a progress operation other than starting over is called with arguments
\* that are valid for the live config
ProgressOperation ==
    \/ \E index \in 0..(config_checkboxes - 1) : \E checked \in BOOLEAN :
          set_checkbox_state(index, checked)
    \/ MergeStored

(***************************************************************************)
(* C20.  A progress operation that meets a checkbox list whose length      *)
(* disagrees with the checkbox count of the live config, in the progress   *)
(* or in the stored snapshot, raises nothing and leaves a list whose       *)
(* length equals the count of the config.                                  *)
(***************************************************************************)
C20_MismatchRepaired ==
    [][((Len(checkbox_checked) # config_checkboxes
             \/ Len(stored_checked) # config_checkboxes)
         /\ ProgressOperation)
        => (progress_error' = {}
            /\ Len(checkbox_checked') = config_checkboxes)]_vars

(***************************************************************************)
(* C21.  The initializer yields, for a config with n checkboxes, a list    *)
(* of exactly n entries, all false; on a list that matches the config,     *)
(* set_checkbox_state(config, i, v) with 0 <= i < n raises nothing, sets   *)
(* entry i to v, changes no other entry and keeps the length n.            *)
(***************************************************************************)
C21_InitializerMatchesConfig ==
    /\ [][create_fields_for_config =>
             /\ Len(checkbox_checked') = config_checkboxes
             /\ \A i \in DOMAIN checkbox_checked' : ~checkbox_checked'[i]]_vars
    /\ [][\A index \in 0..(config_checkboxes - 1) : \A checked \in BOOLEAN :
             (Len(checkbox_checked) = config_checkboxes
                  /\ set_checkbox_state(index, checked))
             => /\ progress_error' = {}
                /\ Len(checkbox_checked') = config_checkboxes
                /\ checkbox_checked'[index + 1] = checked
                /\ \A i \in DOMAIN checkbox_checked :
                      i # index + 1
                          => checkbox_checked'[i] = checkbox_checked[i]]_vars

\* on a config with the most checkboxes, the last checkbox was set and the
\* first one is still unchecked
C21_Witness ==
    /\ config_checkboxes = MaxCheckboxes
    /\ Len(checkbox_checked) = config_checkboxes
    /\ checkbox_checked[config_checkboxes]
    /\ ~checkbox_checked[1]
    /\ stored_checked = AllUnchecked(config_checkboxes)
    /\ progress_error = {}

(***************************************************************************)
(* C22.  A registered component type has a merge reducer for every field   *)
(* of its progress schema: a module with a field that lacks one is not     *)
(* registered.                                                             *)
(***************************************************************************)
C22_ReducerForEveryField ==
    (ScannedModule /\ LastRegistered) =>
        Val(last_source).reducerFields = Val(last_source).progressFields

(***************************************************************************)
(* C23.  When the build completes, every component occurrence of an        *)
(* ingested document that carries a type and an id of the valid range,     *)
(* 0 included, has its id in the component-id set and in                   *)
(* componentIdToType.  (The upper end of the range, 999999999999, is       *)
(* beyond the ids of YamlFiles.)                                           *)
(***************************************************************************)
C23_ValidIdsIndexed ==
    BuildCompleted =>
        \A i \in DOMAIN ingested :
            \A occ \in Occurrences(ingested[i].file) :
                (occ.id # {} /\ occ.type # {} /\ Val(occ.id) >= 0)
                    => /\ Val(occ.id) \in component_ids
                       /\ Val(occ.id) \in DOMAIN component_id_to_type

\* the href of the page holds both code= and state=
CallbackUrl ==
    current_url # {} /\ Val(current_url).has_code /\ Val(current_url).has_state

(***************************************************************************)
(* C24.  solid_client.login is called only on a URL that is not an OAuth   *)
(* callback and with a session that is not logged in; on a callback URL    *)
(* it is never called, and a run that finds the session logged in on a     *)
(* non-callback URL shows success without a login.                         *)
(***************************************************************************)
C24_LoginOnlyWhenNeeded ==
    /\ login_issuer # {} => (~CallbackUrl /\ ~session_info.isLoggedIn)
    /\ CallbackUrl => login_issuer = {}
    /\ (conn_pc = "returned" /\ current_url # {} /\ ~CallbackUrl
            /\ session_info.isLoggedIn)
           => (status = "success" /\ login_issuer = {})

\* the login went to a custom provider from a URL that holds code= but
\* not state=
C24_Witness ==
    /\ login_issuer = {"http://bob.pod.example/me"}
    /\ Val(current_url).has_code
    /\ ~Val(current_url).has_state

(***************************************************************************)
(* C25.  On the callback path success is shown only in an attempt that     *)
(* saw the session logged in with a non-empty WebID and saw it logged in   *)
(* again after the persistence wait; an attempt that finds the session     *)
(* lost after the wait does not show success.                              *)
(***************************************************************************)
C25_SuccessAfterPersistence ==
    /\ []((status = "success" /\ CallbackUrl)
             => /\ webid # {} /\ ~BlankString(Val(webid))
                /\ ever_ready
                /\ session_info.isLoggedIn)
    /\ [][(conn_pc = "persist" /\ ~session_info'.isLoggedIn)
             => status' # "success"]_vars

\* success in a later attempt, after the session was lost once during the
\* persistence wait
C25_Witness ==
    /\ status = "success"
    /\ CallbackUrl
    /\ persistence_failures > 0
    /\ attempt > 1

(***************************************************************************)
(* C26.  On the callback path the backup is written to localStorage and    *)
(* success is shown only for a WebID that passes the http/https URL        *)
(* validation.                                                             *)
(***************************************************************************)
C26_OnlyValidWebId ==
    /\ session_backup # {} =>
           (StartsWithHttp(Val(session_backup))
                /\ UrlParses(Val(session_backup)))
    /\ (status = "success" /\ CallbackUrl) => validation_passed = {TRUE}

(***************************************************************************)
(* C27.  The handler counts a persistence failure only when the session    *)
(* is lost during the persistence wait, never counts more than             *)
(* max_persistence_failures, and at that number shows the persistence      *)
(* error and stops polling.                                                *)
(***************************************************************************)
C27_PersistenceFailuresBounded ==
    /\ [](/\ persistence_failures <= max_persistence_failures
          /\ persistence_failures = max_persistence_failures
                <=> error_message = {"Session persistence is failing"}
          /\ persistence_failures = max_persistence_failures
                => conn_pc = "returned")
    /\ [][persistence_failures' # persistence_failures
             => /\ conn_pc = "persist"
                /\ ~session_info'.isLoggedIn
                /\ persistence_failures' = persistence_failures + 1]_vars

\* the third persistence failure came after attempts that did not count
C27_Witness ==
    /\ persistence_failures = max_persistence_failures
    /\ attempt > max_persistence_failures
    /\ conn_pc = "returned"

(***************************************************************************)
(* C28.  A run on the callback path whose session never becomes ready      *)
(* ends, once its polling is over, with the "Authentication timed out"     *)
(* error.                                                                  *)
(***************************************************************************)
C28_NeverReadyTimesOut ==
    (conn_pc = "returned" /\ CallbackUrl /\ attempt > 0 /\ ~ever_ready)
        => error_message = {"Authentication timed out"}

(***************************************************************************)
(* C29.  A run that has returned made at most max_attempts polling         *)
(* attempts and shows exactly one outcome: success, an error, or a login   *)
(* that was initiated without failing.                                     *)
(***************************************************************************)
C29_OneTerminalOutcome ==
    conn_pc = "returned" =>
        /\ attempt <= max_attempts
        /\ \/ status = "success" /\ error_message = {} /\ login_issuer = {}
           \/ status # "success" /\ error_message # {} /\ login_issuer = {}
           \/ /\ status # "success" /\ error_message = {}
              /\ login_issuer # {} /\ ~login_raised

\* age of the stored backup at the check, in milliseconds
BackupAge ==
    current_time - (IF Val(stored_session).timestamp = {} THEN 0
                    ELSE Val(Val(stored_session).timestamp))

SlotElementCount(error_id) ==
    Cardinality({i \in DOMAIN slot_elements : slot_elements[i] = error_id})

(***************************************************************************)
(* C33.  With the error slot of a timeline, after any sequence of show,     *)
(* clear_error and clear_all_errors calls the slot is hidden exactly when   *)
(* active_errors is empty, and the slot holds exactly one element for each  *)
(* id of active_errors and none for any other id.                           *)
(***************************************************************************)
C33_SlotMirrorsActiveErrors ==
    has_error_slot =>
        /\ ("hidden" \in error_slot_class) <=> (DOMAIN active_errors = {})
        /\ \A error_id \in DOMAIN active_errors :
              SlotElementCount(error_id) = 1
        /\ ElementIds(slot_elements) \subseteq DOMAIN active_errors

\* a run of start_bootstrap is over
BootstrapOver == boot_pc \in {"initialized", "no_solid"}

\* the Solid connection error is displayed in the visible error slot
SolidErrorDisplayed ==
    /\ "solid-connection" \in DOMAIN active_errors
    /\ "solid-connection" \in ElementIds(slot_elements)
    /\ "hidden" \notin error_slot_class

C32_RetryClearsSolidError ==
    [][(boot_pc = "no_solid" /\ boot_pc' = "polling")
          => "solid-connection" \notin DOMAIN active_errors']_vars

(***************************************************************************)
(* C34.  Unless check_session has returned True and logout has not been     *)
(* called since, save_lesson_progress returns False and                     *)
(* load_lesson_progress returns None without any storage call; after a      *)
(* call of logout pod_url is None.                                          *)
(***************************************************************************)
C34_StorageGatedOnSession ==
    /\ (last_op = "save" /\ ~session_gate) =>
          (last_return = "False" /\ last_storage_calls = <<>>)
    /\ (last_op = "load" /\ ~session_gate) =>
          (last_return = "None" /\ last_storage_calls = <<>>)
    /\ last_op = "logout" => pod_url = {}

\* the overwriteFile call of the last save returned
OverwriteSucceeded ==
    /\ Len(last_storage_calls) = 2
    /\ last_storage_calls[2] = [name |-> "overwriteFile", outcome |-> "ok"]

\* the file of the last save is in the pod
LastFileWritten ==
    /\ pod_url # {}
    /\ <<Val(pod_url), Val(last_lesson)>> \in pod_files

(***************************************************************************)
(* C35 as stated.  save_lesson_progress returns True only if the file is    *)
(* in the pod, and returns False without a pod URL, when                    *)
(* ensure_directory_exists returned False, and when the overwrite failed.   *)
(***************************************************************************)
C35_SaveFalseWithoutDirectory ==
    last_op = "save" =>
        /\ last_return = "True" => LastFileWritten
        /\ pod_url = {} => last_return = "False"
        /\ ensured = {FALSE} => last_return = "False"
        /\ ~OverwriteSucceeded => last_return = "False"

(***************************************************************************)
(* C35.  save_lesson_progress returns True exactly when there is a pod URL  *)
(* and the overwrite call succeeded, whatever ensure_directory_exists       *)
(* returned, and then the file is in the pod; it returns False without a    *)
(* pod URL and when the overwrite call failed.                              *)
(***************************************************************************)
C35_SaveTrueIffWritten ==
    last_op = "save" =>
        /\ last_return \in {"True", "False"}
        /\ last_return = "True" <=> (pod_url # {} /\ OverwriteSucceeded)
        /\ last_return = "True" => LastFileWritten
        /\ pod_url = {} => last_storage_calls = <<>>

\* a save that returned True although the directory could not be ensured
C35_Witness ==
    /\ last_op = "save"
    /\ last_return = "True"
    /\ ensured = {FALSE}
    /\ LastFileWritten

====
